---- MODULE Spec2Model ----
(***************************************************************************)
(* Streaming inference gateway of the chat backend: one relay              *)
(* (AiGatewayService.streamChat) from subscription to its end, with the    *)
(* retry wrapper (callAIEngineWithRetry), the upstream response stream,    *)
(* the conversation store, the cache store and the caller's connection.    *)
(***************************************************************************)
EXTENDS Integers, Sequences, FiniteSets, TLC

(***************************************************************************)
(* Program constants and bounds                                            *)
(***************************************************************************)
MAX_RETRIES == 3
AI_ENGINE_TIMEOUT == 120000
BackoffBase == 1000
BackoffCap == 10000

\* Bound: number of frames the upstream writes into one response.
MaxFrames == 2

\* Upstream HTTP statuses of a failed attempt (axios rejects every non-2xx).
Statuses == {400, 429, 499, 500}
\* Failures without a response (network errors).
NetworkCodes == {"ECONNREFUSED", "ECONNRESET"}

UserId == "u1"
GivenConversation == "c1"
CreatedConversation == "c2"
StreamId == "u1-t0"

(***************************************************************************)
(* Text of the upstream response.  A text is a sequence of symbols: "NL"   *)
(* is a line feed, "MARK" the six characters 'data: ', "SP" a blank; a     *)
(* JSON object is two symbols (its text up to the closing brace, and the   *)
(* brace), so that a chunk boundary can fall inside it.                    *)
(***************************************************************************)
ContentFrameA == <<"MARK", "{c:a", "}", "NL", "NL">>
ContentFrameB == <<"MARK", "{c:b", "}", "NL">>
\* a blank line and a null payload
NullFrame == <<"SP", "NL", "MARK", "null", "NL">>
\* the sources of the answer and the end marker
SourcesDoneFrame == <<"MARK", "{src", "}", "NL", "MARK", "[DONE]", "NL">>
Frames == {ContentFrameA, ContentFrameB, NullFrame, SourcesDoneFrame}

RECURSIVE Flatten(_)
Flatten(ss) == IF ss = <<>> THEN <<>> ELSE Head(ss) \o Flatten(Tail(ss))

RECURSIVE SeqsUpTo(_, _)
SeqsUpTo(S, n) ==
    IF n = 0 THEN {<<>>}
    ELSE LET shorter == SeqsUpTo(S, n - 1)
         IN shorter \cup {Append(s, x) : s \in {t \in shorter : Len(t) = n - 1}, x \in S}

\* The texts an upstream response can carry: up to MaxFrames frames.
Wires == {Flatten(fs) : fs \in SeqsUpTo(Frames, MaxFrames)}

\* text.split('\n')
RECURSIVE SplitFrom(_, _)
SplitFrom(text, cur) ==
    IF text = <<>> THEN <<cur>>
    ELSE IF Head(text) = "NL" THEN <<cur>> \o SplitFrom(Tail(text), <<>>)
    ELSE SplitFrom(Tail(text), Append(cur, Head(text)))

SplitLines(text) == SplitFrom(text, <<>>)

\* line.trim() is non-empty
NonBlank(line) == \E i \in 1..Len(line) : line[i] # "SP"

\* line.startsWith('data: ')
StartsWithMarker(line) == Len(line) >= 1 /\ line[1] = "MARK"

\* line.slice(6)
SliceMarker(line) == Tail(line)

\* JSON.parse(data): ok = FALSE stands for the SyntaxError it throws.  A
\* parsed object keeps its content field (hasContent) or has none.
Parsed(ok, isNull, kind, hasContent, content) ==
    [ok |-> ok, isNull |-> isNull, kind |-> kind, hasContent |-> hasContent, content |-> content]

JSONParse(data) ==
    IF data = <<"{c:a", "}">> THEN Parsed(TRUE, FALSE, "content", TRUE, <<"a">>)
    ELSE IF data = <<"{c:b", "}">> THEN Parsed(TRUE, FALSE, "content", TRUE, <<"b">>)
    ELSE IF data = <<"{src", "}">> THEN Parsed(TRUE, FALSE, "sources", FALSE, <<>>)
    ELSE IF data = <<"null">> THEN Parsed(TRUE, TRUE, "null", FALSE, <<>>)
    ELSE Parsed(FALSE, FALSE, "invalid", FALSE, <<>>)

\* parsed.content || ''
ContentOrEmpty(parsed) == IF parsed.hasContent THEN parsed.content ELSE <<>>

\* A line is forwarded when it carries the marker, is not the end marker and
\* parses to a value whose content can be read (reading null.content throws
\* inside the try block, so a null payload is skipped like invalid JSON).
Forwardable(line) ==
    /\ NonBlank(line)
    /\ StartsWithMarker(line)
    /\ SliceMarker(line) # <<"[DONE]">>
    /\ JSONParse(SliceMarker(line)).ok
    /\ ~JSONParse(SliceMarker(line)).isNull

\* The parsed payloads one chunk yields, in line order: the loop of the
\* 'data' handler.
ParseChunk(chunk) ==
    LET lines == SplitLines(chunk)
        kept == SelectSeq(lines, Forwardable)
    IN [i \in 1..Len(kept) |-> JSONParse(SliceMarker(kept[i]))]

(***************************************************************************)
(* Events delivered to the caller (observer.next) and the terminal         *)
(* notifications of the observable.                                        *)
(***************************************************************************)
Ev(kind, content, conversationId, error, origin) ==
    [kind |-> kind, content |-> content, conversationId |-> conversationId,
     error |-> error, origin |-> origin]

ContentEvent(parsed, origin) == Ev(parsed.kind, ContentOrEmpty(parsed), "", "", origin)
DoneEvent(conversationId) == Ev("done", <<>>, conversationId, "", 0)
ErrorEvent(message) == Ev("error", <<>>, "", message, 0)

(***************************************************************************)
(* Cache store: the set of keys present.  A key is <<namespace, id>>.      *)
(***************************************************************************)
ConversationKey(c) == <<"conversation", c>>
MessagesKey(c) == <<"messages", c>>
FilesKey(c) == <<"files", c>>
ConversationsKey(u) == <<"conversations", u>>
StreamKey(sid) == <<"stream", sid>>

\* key.includes(pattern)
Includes(key, pattern) ==
    \E i \in 0..(Len(key) - Len(pattern)) :
        \A j \in 1..Len(pattern) : key[i + j] = pattern[j]

\* cacheManager.del(key), when the store answers
Del(store, key) == store \ {key}

\* CacheService.invalidatePattern: a store failure is swallowed and leaves
\* the store as it was.
InvalidatePattern(store, pattern, ok) ==
    IF ok THEN {k \in store : ~Includes(k, pattern)} ELSE store

(***************************************************************************)
(* Errors.  name/code/status are the fields the catch blocks read.         *)
(***************************************************************************)
Err(name, code, status, att) == [name |-> name, code |-> code, status |-> status, att |-> att]

NoError == Err("none", "none", 0, 0)
CanceledError(att) == Err("CanceledError", "ERR_CANCELED", 0, att)
HttpError(status, att) == Err("AxiosError", "ERR_BAD_RESPONSE", status, att)
NetworkError(code, att) == Err("Error", code, 0, att)
NotFoundError == Err("NotFoundException", "none", 0, 0)
DbError == Err("QueryFailedError", "none", 0, 0)
StoreError == Err("Error", "STORE", 0, 0)
StreamFailure == Err("Error", "ECONNRESET", 0, 0)

\* The failures axios.post rejects with when the call was not aborted.
UpstreamFailures(att) ==
    {HttpError(st, att) : st \in Statuses} \cup {NetworkError(c, att) : c \in NetworkCodes}

\* error.name === 'CanceledError' || error.code === 'ERR_CANCELED'
IsCanceled(e) == e.name = "CanceledError" \/ e.code = "ERR_CANCELED"

\* error.response?.status >= 400 && error.response?.status < 500
IsClientError(e) == e.status >= 400 /\ e.status < 500

\* attempt < this.MAX_RETRIES
MayRetryOffByOne(att) == att <= MAX_RETRIES
MayRetry(att) == att < MAX_RETRIES

RECURSIVE Pow2(_)
Pow2(n) == IF n = 0 THEN 1 ELSE 2 * Pow2(n - 1)

Min(a, b) == IF a <= b THEN a ELSE b

\* Math.min(1000 * Math.pow(2, attempt - 1), 10000)
RetryDelay(att) == Min(BackoffBase * Pow2(att - 1), BackoffCap)

\* The message of the error event built in streamChat's catch block.
ErrorMessage(e) ==
    IF e.name = "AbortError" \/ e.code = "ECONNABORTED" THEN "timeout"
    ELSE IF e.code = "ECONNREFUSED" THEN "unavailable"
    ELSE IF e.status = 429 THEN "ratelimit"
    ELSE "message"

(***************************************************************************)
(* State                                                                   *)
(***************************************************************************)
VARIABLES
    pc,              \* where the relay is
    convGiven,       \* the request names a conversation
    conv,            \* conversation.id once resolved, "" before
    attempt,         \* attempt parameter of the running callAIEngineWithRetry
    listening,       \* that call's controller has a live listener on the caller's signal
    ctrlAborted,     \* that call's controller.signal.aborted
    timedOut,        \* the abort came from the 120 s timer
    aborted,         \* abortController.signal.aborted (streamChat's controller)
    isStreamActive,
    responseStream,  \* "null", "open", "ended", "errored", "destroyed"
    wire,            \* text the upstream has still to deliver
    fullResponse,
    closed,          \* the subscriber is closed: next/complete/error do nothing
    connected,       \* the caller has not disconnected
    events,          \* events delivered to the caller, in order
    notified,        \* "none", "complete", "error": terminal notification delivered
    messages,        \* rows of the message table written by this relay, in order
    cache,           \* keys present in the cache store
    err,             \* error being handled
    delays,          \* backoff waits started, in order (ms)
    swallowed,       \* the 'end' handler's file-list invalidation failed silently
    storeThrew,      \* a cache call that nothing guards has thrown
    cutEarly         \* the caller disconnected before an upstream response arrived

\* The rate limiter and its guard (RateLimitService, RateLimitGuard): the
\* counter entry of one identity and the requests of that identity.
VARIABLES
    now,             \* the store's clock
    rlCount,         \* value stored under ratelimit:<identifier>, 0 when never set
    rlExpiry,        \* time at which the stored entry expires
    gpc,             \* per request: where canActivate / the handler is
    route,           \* per request: the route it addresses
    current,         \* per request: const current of checkLimit
    allowed,         \* per request: "unchecked", or what checkLimit returned
    failed,          \* per request: a store operation of its check has failed
    winStart,        \* time at which the stored entry was last created
    winAdmitted      \* requests admitted by a counter write since then

\* The read-through cache of one conversation's message list
\* (ChatService.getConversationMessages / saveMessage over CacheService).
VARIABLES
    messageRows,     \* number of rows of the conversation in the message table
    messagesEntry,   \* list cached under messages:<id> (its length), -1 when absent
    rdpc,            \* per reader: where its getConversationMessages call is
    value,           \* per reader: const value of getOrSet
    returned,        \* per reader: the list its call returned (its length)
    fresh,           \* per reader: no save was pending or made since the call began
    svpc,            \* where the saveMessage call is
    keysSeen,        \* invalidatePattern: store.keys() listed the messages key
    cacheFailed      \* a store operation has failed

\* One key of the read-through cache (CacheService.getOrSet / del) and the
\* calls a caller makes on it one after another.
VARIABLES
    gosEntry,        \* value stored under the key, "undefined" when absent
    gospc,           \* where the getOrSet call is
    gosValue,        \* const value of getOrSet
    gosResult,       \* what the call returned or threw, "none" while it runs
    gosComputed,     \* what the last factory invocation returned
    gosComputes,     \* factory invocations of the current call
    gosStoreFailed,  \* a store operation of the current call has failed
    sinceCalls,      \* calls completed since the key was last absent
    sinceComputes,   \* factory invocations since then
    sinceHealthy,    \* no store operation failed and no factory threw since then
    gosInvalidated   \* del has removed the entry at least once

gosVars == <<gosEntry, gospc, gosValue, gosResult, gosComputed, gosComputes,
             gosStoreFailed, sinceCalls, sinceComputes, sinceHealthy, gosInvalidated>>
\* CacheService.invalidateConversation over the keys of two conversations.
VARIABLES
    invStore,        \* keys present in the cache store
    invpc,           \* where the invalidateConversation call is
    invId,           \* its conversationId argument
    invOutcome,      \* "none" while it runs, "ok" when it returned, or the error it threw
    invHadEntries,   \* the store held an entry of invId when the call began
    invFailed,       \* a store operation of the call has failed
    invRow,          \* calls completed in a row on invId with nothing stored in between
    invOnce          \* the store as the first call of the row left it

invVars == <<invStore, invpc, invId, invOutcome, invHadEntries, invFailed, invRow, invOnce>>
\* The stream registry (StreamService): the sessions of one owner in the
\* cache store, the owner's index and the calls in progress.  Time is in
\* milliseconds.
VARIABLES
    regNow,          \* the clock
    regTicks,        \* advances of the clock so far
    streams,         \* per session id: the StreamInfo under stream:<id> and the entry's expiry
    userStreams,     \* list stored under user_streams:<userId>
    userStreamsTtlAt,\* time at which that entry expires
    regpc,           \* per session id: where the register / unregister call for it is
    idxRead,         \* per session id: const streams of the call in progress
    status,          \* per session id: "never", "registered" or "deregistered"
    lastOp,          \* the operation that completed last, if no call began since
    listed,          \* ids the listing that completed last returned or counted
    before,          \* what the store held when the unregister call began
    sweptOut         \* ids the cleanup task has unregistered

regVars == <<regNow, regTicks, streams, userStreams, userStreamsTtlAt, regpc, idxRead,
             status, lastOp, listed, before, sweptOut>>
\* The session keys of two relays of one owner (streamChat's own tracking).
VARIABLES
    trkNow,          \* Date.now() (ms)
    trkpc,           \* per relay: "idle", "inflight" or "ended"
    trkId,           \* per relay: const streamId
    trkStore         \* stream: keys present in the cache store

trkVars == <<trkNow, trkpc, trkId, trkStore>>
\* generateTitleFromMessage: one message and the title derived from it.
VARIABLES
    titleMessage,    \* the message argument, a sequence of characters
    titled,          \* generateTitleFromMessage has returned
    title            \* the title it returned

titleVars == <<titleMessage, titled, title>>
\* DemoService.createConversation: the demo user's conversations and the
\* create requests in progress.
VARIABLES
    demoRows,        \* conversations of the demo user in the table
    dpc,             \* per request: where createConversation is
    dcount           \* per request: const count

demoVars == <<demoRows, dpc, dcount>>
\* PreviewService.getPublicConversation behind the controller's
\* CacheInterceptor, and ChatService.togglePublicStatus of the owner.
VARIABLES
    isPublic,        \* the conversation row's isPublic column
    publicCached,    \* key public_conversation:<id> holds the result
    routeCached,     \* the interceptor's key (the request URL) holds a response
    ppc,             \* per preview request: where it is
    pOut,            \* per preview request: what it answered
    pLate,           \* per preview request: it began after the owner made
                     \* the conversation private (and it still is meant to be)
    tpc,             \* where togglePublicStatus is
    tArg,            \* its isPublic argument
    madePrivate      \* togglePublicStatus(id, false) has completed and no
                     \* togglePublicStatus(id, true) has begun since

prevVars == <<isPublic, publicCached, routeCached, ppc, pOut, pLate, tpc, tArg, madePrivate>>
\* ChatService.findConversationById for callers with different userIds, and
\* the relay's use of it (streamChat with a conversationId).
VARIABLES
    detailCached,    \* key conversation:<id> holds the conversation
    fpc,             \* per caller: where findConversationById / the relay is
    fOut,            \* per caller: what findConversationById gave
    appendedBy       \* callers whose relay has saved a message in the conversation

ownVars == <<detailCached, fpc, fOut, appendedBy>>
\* The client's streaming send (chatAPI.sendMessage, demoAPI.sendMessage):
\* one call of the generator for one message.
VARIABLES
    sendApi,         \* "chat" or "demo": which of the two generators runs
    spc,             \* where the generator is
    sendAttempt,     \* let attempt of the for loop
    lastError,       \* message of the error caught last
    posts,           \* POST requests issued for the message
    yielded,         \* chunks yielded to the consumer
    reposted         \* a POST was issued after a chunk had been yielded

sendVars == <<sendApi, spc, sendAttempt, lastError, posts, yielded, reposted>>
\* The demo store (useDemoStore): sendMessage calls and stopStreaming.
VARIABLES
    isSending,
    abortController, \* 0 for null, or the sendMessage call whose controller it is
    mpc,             \* per sendMessage call: where it is
    mAttempt,        \* per call: attempt of the generator's retry loop
    mAborted,        \* per call: its AbortController's signal is aborted
    mChunks          \* per call: content chunks its loop has received

storeVars == <<isSending, abortController, mpc, mAttempt, mAborted, mChunks>>
relayVars == <<pc, convGiven, conv, attempt, listening, ctrlAborted, timedOut, aborted,
               isStreamActive, responseStream, wire, fullResponse, closed, connected,
               events, notified, messages, cache, err, delays, swallowed, storeThrew,
               cutEarly>>

rateVars == <<now, rlCount, rlExpiry, gpc, route, current, allowed, failed,
              winStart, winAdmitted>>

cacheVars == <<messageRows, messagesEntry, rdpc, value, returned, fresh, svpc,
               keysSeen, cacheFailed>>

\* What the relay's actions leave alone
offRelay == <<rateVars, cacheVars, gosVars, invVars, regVars, trkVars, titleVars, demoVars, prevVars, ownVars, sendVars, storeVars>>

\* What the rate limiter's actions leave alone
offRate == <<relayVars, cacheVars, gosVars, invVars, regVars, trkVars, titleVars, demoVars, prevVars, ownVars, sendVars, storeVars>>

\* What the actions of the message-list cache leave alone
offCache == <<relayVars, rateVars, gosVars, invVars, regVars, trkVars, titleVars, demoVars, prevVars, ownVars, sendVars, storeVars>>

\* What the actions of the getOrSet calls leave alone
offGos == <<relayVars, rateVars, cacheVars, invVars, regVars, trkVars, titleVars, demoVars, prevVars, ownVars, sendVars, storeVars>>

\* What the actions of invalidateConversation leave alone
offInv == <<relayVars, rateVars, cacheVars, gosVars, regVars, trkVars, titleVars, demoVars, prevVars, ownVars, sendVars, storeVars>>

\* What the actions of the stream registry leave alone
offReg == <<relayVars, rateVars, cacheVars, gosVars, invVars, trkVars, titleVars, demoVars, prevVars, ownVars, sendVars, storeVars>>

\* What the actions of the relays' session tracking leave alone
offTrk == <<relayVars, rateVars, cacheVars, gosVars, invVars, regVars, titleVars, demoVars, prevVars, ownVars, sendVars, storeVars>>

\* What the title generation leaves alone
offTitle == <<relayVars, rateVars, cacheVars, gosVars, invVars, regVars, trkVars, demoVars, prevVars, ownVars, sendVars, storeVars>>

\* What the demo create requests leave alone
offDemo == <<relayVars, rateVars, cacheVars, gosVars, invVars, regVars, trkVars, titleVars, prevVars, ownVars, sendVars, storeVars>>

\* What preview and toggle leave alone
offPrev == <<relayVars, rateVars, cacheVars, gosVars, invVars, regVars, trkVars, titleVars, demoVars, ownVars, sendVars, storeVars>>

\* What the conversation lookups leave alone
offOwn == <<relayVars, rateVars, cacheVars, gosVars, invVars, regVars, trkVars, titleVars, demoVars, prevVars, sendVars, storeVars>>

\* What the client's send leaves alone
offSend == <<relayVars, rateVars, cacheVars, gosVars, invVars, regVars, trkVars, titleVars, demoVars, prevVars, ownVars, storeVars>>

\* What the demo store leaves alone
offStore == <<relayVars, rateVars, cacheVars, gosVars, invVars, regVars, trkVars, titleVars, demoVars, prevVars, ownVars, sendVars>>

vars == <<relayVars, offRelay>>

tearVars == <<isStreamActive, aborted, ctrlAborted, responseStream>>
obsVars == <<closed, events, notified>>
callVars == <<attempt, listening, timedOut, delays>>
dataVars == <<wire, fullResponse>>
dbVars == <<convGiven, conv, messages, swallowed>>

\* Cache contents before the relay: the conversation's entries are all
\* cached, or none is.
WarmCache ==
    {ConversationKey(GivenConversation), MessagesKey(GivenConversation),
     FilesKey(GivenConversation), ConversationsKey(UserId)}

RelayInit ==
    /\ pc = "track"
    /\ convGiven \in BOOLEAN
    /\ conv = ""
    /\ attempt = 0
    /\ listening = FALSE
    /\ ctrlAborted = FALSE
    /\ timedOut = FALSE
    /\ aborted = FALSE
    /\ isStreamActive = TRUE
    /\ responseStream = "null"
    /\ wire = <<>>
    /\ fullResponse = <<>>
    /\ closed = FALSE
    /\ connected = TRUE
    /\ events = <<>>
    /\ notified = "none"
    /\ messages = <<>>
    /\ cache \in {{}, WarmCache}
    /\ err = NoError
    /\ delays = <<>>
    /\ swallowed = FALSE
    /\ storeThrew = FALSE
    /\ cutEarly = FALSE

(***************************************************************************)
(* Rate limiter: RateLimitService.checkLimit and RateLimitGuard.canActivate *)
(***************************************************************************)
\* Bounds: the configured limit and window of the limited route and the
\* last clock value.
Limit == 2
WindowSeconds == 2
MaxTime == 4

\* Two requests of the identity can be in progress together.
Requests == {1, 2}

\* Routes behind the guard: the demo controller of the source carries the
\* guard but no @RateLimit metadata; a route decorated with @RateLimit has
\* the limit and the window the decorator stores.
Routes == {"demo", "limited"}

\* reflector.getAllAndOverride(RATE_LIMIT_KEY, ...): 0 stands for undefined
LimitOf(r) == IF r = "limited" THEN Limit ELSE 0

\* cacheManager.get(key): undefined (0) when never set or expired
Stored == IF rlCount > 0 /\ now < rlExpiry THEN rlCount ELSE 0

RateInit ==
    /\ now = 0
    /\ rlCount = 0
    /\ rlExpiry = 0
    /\ gpc = [r \in Requests |-> "idle"]
    /\ route = [r \in Requests |-> "demo"]
    /\ current = [r \in Requests |-> 0]
    /\ allowed = [r \in Requests |-> "unchecked"]
    /\ failed = [r \in Requests |-> FALSE]
    /\ winStart = 0
    /\ winAdmitted = 0
(***************************************************************************)
(* Message-list cache: initial state                                       *)
(***************************************************************************)
\* Bound: number of messages saved.
MaxSaves == 2

Readers == {1, 2}

CacheInit ==
    /\ messageRows = 0
    /\ messagesEntry = -1
    /\ rdpc = [r \in Readers |-> "idle"]
    /\ value = [r \in Readers |-> 0]
    /\ returned = [r \in Readers |-> 0]
    /\ fresh = [r \in Readers |-> FALSE]
    /\ svpc = "idle"
    /\ keysSeen = FALSE
    /\ cacheFailed = FALSE

(***************************************************************************)
(* CacheService.getOrSet on one key: initial state                         *)
(***************************************************************************)
\* Bound: calls counted on one entry.
MaxCalls == 2

\* Values a factory returns; all are valid values to cache.
Values == {"emptyList", "zero", "false", "emptyString", "rows"}

\* JavaScript truthiness of a cached value
Truthy(v) == v \in {"emptyList", "rows"}

GosInit ==
    /\ gosEntry = "undefined"
    /\ gospc = "idle"
    /\ gosValue = "undefined"
    /\ gosResult = "none"
    /\ gosComputed = "undefined"
    /\ gosComputes = 0
    /\ gosStoreFailed = FALSE
    /\ sinceCalls = 0
    /\ sinceComputes = 0
    /\ sinceHealthy = TRUE
    /\ gosInvalidated = FALSE
(***************************************************************************)
(* CacheService.invalidateConversation: initial state                      *)
(***************************************************************************)
InvIds == {GivenConversation, CreatedConversation}

\* The keys the read-throughs of ChatService create for a conversation
EntriesOf(c) == {ConversationKey(c), MessagesKey(c), FilesKey(c)}

InvInit ==
    /\ invStore = {}
    /\ invpc = "idle"
    /\ invId = GivenConversation
    /\ invOutcome = "none"
    /\ invHadEntries = FALSE
    /\ invFailed = FALSE
    /\ invRow = 0
    /\ invOnce = {}
(***************************************************************************)
(* StreamService: the registry of stream sessions                          *)
(***************************************************************************)
STREAM_TIMEOUT == 300

\* Bound: advances of the clock.
MaxAdvances == 3

\* Steps of the clock (ms): half a second, and what is then left of the
\* session timeout less a quarter of a second.
Advances == {500, 299750}

\* uuidv4() values; each is drawn once
SessionIds == {"s1", "s2"}

NoStream == [lastActivityAt |-> 0, expiresAt |-> 0, ttlAt |-> 0]

\* Math.ceil(a / b) for b > 0
CeilDiv(a, b) == -((-a) \div b)

\* cacheManager.get(`stream:${id}`) answers while the entry has not expired
Present(id) == regNow < streams[id].ttlAt

\* (await cacheManager.get(userStreamsKey)) || []
Index == IF regNow < userStreamsTtlAt THEN userStreams ELSE <<>>

\* What the store holds
View == <<[i \in SessionIds |-> IF Present(i) THEN streams[i] ELSE NoStream], Index>>

NoView == <<[i \in SessionIds |-> NoStream], <<>>>>

Op(name, id) == [op |-> name, id |-> id]

RegInit ==
    /\ regNow = 0
    /\ regTicks = 0
    /\ streams = [i \in SessionIds |-> NoStream]
    /\ userStreams = <<>>
    /\ userStreamsTtlAt = 0
    /\ regpc = [i \in SessionIds |-> "idle"]
    /\ idxRead = [i \in SessionIds |-> <<>>]
    /\ status = [i \in SessionIds |-> "never"]
    /\ lastOp = Op("none", "")
    /\ listed = {}
    /\ before = NoView
    /\ sweptOut = {}
(***************************************************************************)
(* Session keys of concurrent relays: initial state                        *)
(***************************************************************************)
\* Bound: last value of the millisecond clock.
MaxClock == 3

Relays == {1, 2}

\* `${userId}-${Date.now()}`
StreamIdAt(u, t) == <<u, t>>

TrkInit ==
    /\ trkNow = 0
    /\ trkpc = [r \in Relays |-> "idle"]
    /\ trkId = [r \in Relays |-> StreamIdAt(UserId, 0)]
    /\ trkStore = {}
(***************************************************************************)
(* generateTitleFromMessage.  A message is a sequence of characters: "a"   *)
(* stands for any character that is neither white space nor a mark, " "    *)
(* and "NL" are white space, ".", "!" and "?" the sentence marks.          *)
(***************************************************************************)
SentenceMax == 60
TitleMax == 50
BoundaryMin == 30

Marks == {".", "!", "?"}
WhiteSpace == {" ", "NL"}
Ellipsis == <<".", ".", ".">>

\* Lengths of the messages, and the places of their mark and of their blank
\* (0: none), around the three thresholds.
MessageLengths == {0, 1, 2, 50, 51, 61, 62, 70}
MarkPlaces == {0, 1, 2, 40, 50, 51, 60, 61}
BlankPlaces == {0, 1, 20, 31, 32, 50, 51}

\* The message of length n with a mark at m and a blank at s, ending with a
\* question mark when e
Plain(n, m, s, e) ==
    [i \in 1..n |-> IF i = m THEN "."
                    ELSE IF i = s THEN " "
                    ELSE IF e /\ i = n THEN "?"
                    ELSE "a"]

\* The same message with white space around it and its blank widened
RECURSIVE Widen(_)
Widen(msg) ==
    IF msg = <<>> THEN <<>>
    ELSE (IF Head(msg) = " " THEN <<" ", "NL">> ELSE <<Head(msg)>>) \o Widen(Tail(msg))

Untidy(msg) == <<"NL", " ">> \o Widen(msg) \o <<" ">>

Messages ==
    {Plain(n, m, s, e) : n \in MessageLengths, m \in MarkPlaces, s \in BlankPlaces, e \in BOOLEAN}
    \cup {Untidy(Plain(n, m, s, FALSE)) : n \in {2, 51, 62}, m \in {0, 2, 60}, s \in {0, 32}}

TitleInit ==
    /\ titleMessage = <<>>
    /\ titled = FALSE
    /\ title = <<>>
(***************************************************************************)
(* DemoService.createConversation: initial state                           *)
(***************************************************************************)
MAX_CONVERSATIONS == 10

\* Two create requests can be in progress together.
Creators == {1, 2}

DemoInit ==
    /\ demoRows = 0
    /\ dpc = [c \in Creators |-> "idle"]
    /\ dcount = [c \in Creators |-> 0]
(***************************************************************************)
(* Preview of a shared conversation: initial state                         *)
(***************************************************************************)
\* Two preview requests can be in progress together.
Previewers == {1, 2}

\* The conversation exists, is shared, and nothing is cached.
PrevInit ==
    /\ isPublic = TRUE
    /\ publicCached = FALSE
    /\ routeCached = FALSE
    /\ ppc = [r \in Previewers |-> "idle"]
    /\ pOut = [r \in Previewers |-> "none"]
    /\ pLate = [r \in Previewers |-> FALSE]
    /\ tpc = "idle"
    /\ tArg = FALSE
    /\ madePrivate = FALSE
(***************************************************************************)
(* Conversation lookup by id and caller: initial state                     *)
(***************************************************************************)
\* The conversation's userId column, and another authenticated user.
Owner == "u1"
Stranger == "u2"
Callers == {Owner, Stranger}

OwnInit ==
    /\ detailCached = FALSE
    /\ fpc = [u \in Callers |-> "idle"]
    /\ fOut = [u \in Callers |-> "none"]
    /\ appendedBy = {}
(***************************************************************************)
(* The client's streaming send: initial state                              *)
(***************************************************************************)
\* defaultRetryOptions.maxRetries
maxRetries == 3

\* Chunks one call is followed for
MaxChunks == 2

\* Messages of the errors the generator can catch: thrown for a response
\* that is not ok (by status), by fetch or reader.read (network), or for an
\* error event of the stream (the text is the backend's).
HttpMessages == {"HTTP 500", "HTTP 429", "400 Bad Request", "DEMO_LIMIT_REACHED"}
StreamMessages == {"Stream error occurred", "Request failed with status code 400"}
NetworkMessage == "Failed to fetch"

\* The generator as it begins (for the chat API)
SendInit ==
    /\ sendApi = "chat"
    /\ spc = "fetch"
    /\ sendAttempt = 0
    /\ lastError = "none"
    /\ posts = 0
    /\ yielded = 0
    /\ reposted = FALSE

(***************************************************************************)
(* The demo store: initial state                                           *)
(***************************************************************************)
\* sendMessage calls of the page, each with its own AbortController
Sends == {1, 2}

\* The text of the error an aborted fetch or read rejects with
AbortMessage == "The user aborted a request."

StoreInit ==
    /\ isSending = FALSE
    /\ abortController = 0
    /\ mpc = [m \in Sends |-> "idle"]
    /\ mAttempt = [m \in Sends |-> 0]
    /\ mAborted = [m \in Sends |-> FALSE]
    /\ mChunks = [m \in Sends |-> 0]
Init == RelayInit /\ RateInit /\ CacheInit /\ GosInit /\ InvInit /\ RegInit /\ TrkInit /\ TitleInit /\ DemoInit /\ PrevInit /\ OwnInit /\ SendInit /\ StoreInit

(***************************************************************************)
(* The observable's subscriber and the teardown function                   *)
(***************************************************************************)
\* responseStream.destroy() in the teardown
Destroyed(rs) == IF rs = "open" THEN "destroyed" ELSE rs

\* The teardown function of the observable (runs once: on unsubscribe, or
\* on the relay's own complete()/error()).  abortController.abort() fires
\* the listener the running call registered, if it registered one in time.
Teardown ==
    /\ isStreamActive' = FALSE
    /\ aborted' = TRUE
    /\ ctrlAborted' = (ctrlAborted \/ listening)
    /\ responseStream' = Destroyed(responseStream)

\* observer.next(ev)
Emit(evs, ev) == IF closed THEN evs ELSE Append(evs, ev)

\* observer.complete() / observer.error(e), followed by the teardown
Terminate(kind) ==
    IF closed
    THEN UNCHANGED <<closed, notified, tearVars>>
    ELSE /\ closed' = TRUE
         /\ notified' = kind
         /\ Teardown

(***************************************************************************)
(* Cache operations of the relay's collaborators                           *)
(***************************************************************************)
\* CacheService.getOrSet, store side, when the factory returns a value: the
\* value is stored on a miss unless the store fails on the read or the write.
GetOrSetStore(store, key, getOk, setOk) ==
    IF getOk /\ key \notin store /\ setOk THEN store \cup {key} ELSE store

\* CacheService.getOrSet returns the cached value without calling the factory
GetOrSetHit(store, key, getOk) == getOk /\ key \in store

\* CacheService.invalidateConversation, when its first del does not throw
InvalidateConversation(store, c, ok1, ok2) ==
    InvalidatePattern(InvalidatePattern(Del(store, ConversationKey(c)), MessagesKey(c), ok1),
                      FilesKey(c), ok2)

(***************************************************************************)
(* streamChat up to the upstream call                                      *)
(***************************************************************************)
\* The listener of an attempt is live when the caller's signal was passed
\* and had not fired before addEventListener ran.
ListenerLive(hasSignal, signalAborted) == hasSignal /\ ~signalAborted

\* The recursive call of the wrapper passes no third argument.
RetryPassesSignal == FALSE

\* callAIEngineWithRetry up to the await of axios.post
StartAttempt(n, hasSignal) ==
    /\ attempt' = n
    /\ listening' = ListenerLive(hasSignal, aborted)
    /\ ctrlAborted' = FALSE
    /\ timedOut' = FALSE
    /\ pc' = "inflight"

\* cacheManager.set(`stream:${streamId}`, ...)
TrackStream ==
    /\ pc = "track"
    /\ \E ok \in BOOLEAN :
        IF ok
        THEN /\ cache' = cache \cup {StreamKey(StreamId)}
             /\ pc' = "resolve"
             /\ err' = err
             /\ storeThrew' = storeThrew
        ELSE /\ cache' = cache
             /\ pc' = "catch"
             /\ err' = StoreError
             /\ storeThrew' = TRUE
    /\ UNCHANGED <<tearVars, obsVars, callVars, dataVars, dbVars, connected, cutEarly, offRelay>>

\* findConversationById (through getOrSet) or createConversation
ResolveConversation ==
    /\ pc = "resolve"
    /\ IF convGiven
       THEN \E getOk \in BOOLEAN, found \in BOOLEAN, setOk \in BOOLEAN :
            IF GetOrSetHit(cache, ConversationKey(GivenConversation), getOk)
            THEN /\ conv' = GivenConversation
                 /\ pc' = "saveUser"
                 /\ UNCHANGED <<cache, err>>
            ELSE IF found
            THEN /\ conv' = GivenConversation
                 /\ cache' = GetOrSetStore(cache, ConversationKey(GivenConversation), getOk, setOk)
                 /\ pc' = "saveUser"
                 /\ err' = err
            ELSE /\ pc' = "catch"
                 /\ err' = NotFoundError
                 /\ UNCHANGED <<conv, cache>>
       ELSE \E dbOk \in BOOLEAN, patOk \in BOOLEAN :
            IF dbOk
            THEN /\ conv' = CreatedConversation
                 /\ cache' = InvalidatePattern(cache, ConversationsKey(UserId), patOk)
                 /\ pc' = "saveUser"
                 /\ err' = err
            ELSE /\ pc' = "catch"
                 /\ err' = DbError
                 /\ UNCHANGED <<conv, cache>>
    /\ UNCHANGED <<tearVars, obsVars, callVars, dataVars, convGiven, messages, swallowed, connected, storeThrew, cutEarly, offRelay>>

UserMessage == [role |-> "user", content |-> <<"q">>]
AssistantMessage(text) == [role |-> "assistant", content |-> text]

\* chatService.saveMessage(conversation.id, USER, message)
SaveUserMessage ==
    /\ pc = "saveUser"
    /\ \E dbOk \in BOOLEAN, delOk \in BOOLEAN, ok1 \in BOOLEAN, ok2 \in BOOLEAN :
        IF ~dbOk
        THEN /\ pc' = "catch"
             /\ err' = DbError
             /\ UNCHANGED <<messages, cache, storeThrew>>
        ELSE /\ messages' = Append(messages, UserMessage)
             /\ IF delOk
                THEN /\ cache' = InvalidateConversation(cache, conv, ok1, ok2)
                     /\ pc' = "history"
                     /\ err' = err
                     /\ storeThrew' = storeThrew
                ELSE /\ cache' = cache
                     /\ pc' = "catch"
                     /\ err' = StoreError
                     /\ storeThrew' = TRUE
    /\ UNCHANGED <<tearVars, obsVars, callVars, dataVars, convGiven, conv, swallowed, connected, cutEarly, offRelay>>

\* getConversationMessages (through getOrSet), then the first call of the
\* retry wrapper with the caller's signal
LoadHistoryAndCall ==
    /\ pc = "history"
    /\ \E getOk \in BOOLEAN, dbOk \in BOOLEAN, setOk \in BOOLEAN :
        IF GetOrSetHit(cache, MessagesKey(conv), getOk) \/ dbOk
        THEN /\ cache' = IF GetOrSetHit(cache, MessagesKey(conv), getOk) THEN cache
                         ELSE GetOrSetStore(cache, MessagesKey(conv), getOk, setOk)
             /\ StartAttempt(1, TRUE)
             /\ UNCHANGED <<err, delays>>
        ELSE /\ pc' = "catch"
             /\ err' = DbError
             /\ UNCHANGED <<cache, callVars, ctrlAborted>>
    /\ UNCHANGED <<isStreamActive, aborted, responseStream, obsVars, dataVars, dbVars, connected, storeThrew, cutEarly, offRelay>>

(***************************************************************************)
(* callAIEngineWithRetry                                                   *)
(***************************************************************************)
\* The catch block rethrows instead of retrying.
Rethrows(e, att) == IsCanceled(e) \/ IsClientError(e) \/ ~MayRetry(att)

\* setTimeout(() => controller.abort(), AI_ENGINE_TIMEOUT) fires
Timeout ==
    /\ pc = "inflight"
    /\ ~ctrlAborted
    /\ ctrlAborted' = TRUE
    /\ timedOut' = TRUE
    /\ UNCHANGED <<pc, isStreamActive, aborted, responseStream, obsVars, dataVars, dbVars,
                   attempt, listening, delays, connected, cache, err, storeThrew, cutEarly, offRelay>>

\* axios.post resolves with a 2xx response: the wrapper returns it and
\* streamChat stores response.data and registers its three handlers.
AttemptResponds ==
    /\ pc = "inflight"
    /\ ~ctrlAborted
    /\ \E w \in Wires : wire' = w
    /\ responseStream' = "open"
    /\ pc' = "streaming"
    /\ UNCHANGED <<isStreamActive, aborted, ctrlAborted, obsVars, fullResponse, dbVars,
                   callVars, connected, cache, err, storeThrew, cutEarly, offRelay>>

\* axios.post rejects: the catch block of the wrapper
AttemptRejects ==
    /\ pc = "inflight"
    /\ \E e \in (IF ctrlAborted THEN {CanceledError(attempt)} ELSE UpstreamFailures(attempt)) :
        IF Rethrows(e, attempt)
        THEN /\ err' = e
             /\ pc' = "catch"
             /\ delays' = delays
        ELSE /\ delays' = Append(delays, RetryDelay(attempt))
             /\ pc' = "backoff"
             /\ err' = err
    /\ UNCHANGED <<tearVars, obsVars, dataVars, dbVars, attempt, listening, timedOut,
                   connected, cache, storeThrew, cutEarly, offRelay>>

\* The backoff timer fires: return this.callAIEngineWithRetry(payload, attempt + 1)
BackoffElapsed ==
    /\ pc = "backoff"
    /\ StartAttempt(attempt + 1, RetryPassesSignal)
    /\ UNCHANGED <<isStreamActive, aborted, responseStream, obsVars, dataVars, dbVars,
                   delays, connected, cache, err, storeThrew, cutEarly, offRelay>>

(***************************************************************************)
(* The handlers of the response stream                                     *)
(***************************************************************************)
\* fullResponse += parsed.content || '' for each forwarded payload
AccumulatePrepending(full, parsed) ==
    Flatten([i \in 1..Len(parsed) |-> ContentOrEmpty(parsed[i])]) \o full
Accumulate(full, parsed) ==
    full \o Flatten([i \in 1..Len(parsed) |-> ContentOrEmpty(parsed[i])])

\* observer.next for each forwarded payload, in line order
ForwardTwice(evs, parsed, origin) ==
    evs \o [i \in 1..Len(parsed) |-> ContentEvent(parsed[i], origin)]
        \o [i \in 1..Len(parsed) |-> ContentEvent(parsed[i], origin)]
Forward(evs, parsed, origin) ==
    evs \o [i \in 1..Len(parsed) |-> ContentEvent(parsed[i], origin)]

\* response.data.on('data'): the upstream delivers the next piece of its
\* text, cut anywhere.
DataChunk ==
    /\ pc = "streaming"
    /\ responseStream = "open"
    /\ wire # <<>>
    /\ \E k \in 1..Len(wire) :
        LET chunk == SubSeq(wire, 1, k)
            parsed == ParseChunk(chunk)
        IN /\ wire' = SubSeq(wire, k + 1, Len(wire))
           /\ IF isStreamActive
              THEN /\ fullResponse' = Accumulate(fullResponse, parsed)
                   /\ events' = IF closed THEN events ELSE Forward(events, parsed, attempt)
              ELSE UNCHANGED <<fullResponse, events>>
    /\ UNCHANGED <<pc, tearVars, closed, notified, callVars, dbVars, connected, cache, err, storeThrew, cutEarly, offRelay>>

\* response.data emits 'end'
StreamEnd ==
    /\ pc = "streaming"
    /\ responseStream = "open"
    /\ wire = <<>>
    /\ responseStream' = "ended"
    /\ pc' = "endSave"
    /\ UNCHANGED <<isStreamActive, aborted, ctrlAborted, obsVars, callVars, dataVars, dbVars,
                   connected, cache, err, storeThrew, cutEarly, offRelay>>

\* response.data emits 'error' (the connection to the upstream broke)
StreamError ==
    /\ pc = "streaming"
    /\ responseStream = "open"
    /\ responseStream' = "errored"
    /\ err' = StreamFailure
    /\ pc' = "errHandler"
    /\ UNCHANGED <<isStreamActive, aborted, ctrlAborted, obsVars, callVars, dataVars, dbVars,
                   connected, cache, storeThrew, cutEarly, offRelay>>

\* 'end' handler, first await: chatService.saveMessage(ASSISTANT, fullResponse).
\* A rejection here is a rejection of the handler's own promise, which
\* nothing awaits.
EndSave ==
    /\ pc = "endSave"
    /\ \E dbOk \in BOOLEAN, delOk \in BOOLEAN, ok1 \in BOOLEAN, ok2 \in BOOLEAN :
        IF ~dbOk
        THEN /\ pc' = "hung"
             /\ err' = DbError
             /\ UNCHANGED <<messages, cache, swallowed, storeThrew>>
        ELSE /\ messages' = Append(messages, AssistantMessage(fullResponse))
             /\ IF delOk
                THEN /\ cache' = InvalidateConversation(cache, conv, ok1, ok2)
                     /\ swallowed' = ~ok2
                     /\ pc' = "endFinish"
                     /\ err' = err
                     /\ storeThrew' = storeThrew
                ELSE /\ cache' = cache
                     /\ swallowed' = swallowed
                     /\ pc' = "hung"
                     /\ err' = StoreError
                     /\ storeThrew' = TRUE
    /\ UNCHANGED <<tearVars, obsVars, callVars, dataVars, convGiven, conv, connected, cutEarly, offRelay>>

\* The keys the 'end' handler deletes itself, in order
EndKeysWithoutList == <<ConversationKey(conv), MessagesKey(conv), StreamKey(StreamId)>>
EndKeys == <<ConversationKey(conv), MessagesKey(conv), ConversationsKey(UserId), StreamKey(StreamId)>>

RECURSIVE DelFirst(_, _, _)
DelFirst(store, keys, n) ==
    IF n = 0 THEN store ELSE DelFirst(Del(store, Head(keys)), Tail(keys), n - 1)

\* 'end' handler, the four cacheManager.del calls, then the done event and
\* observer.complete().  The first del that fails rejects the handler.
EndFinish ==
    /\ pc = "endFinish"
    /\ \E n \in 0..Len(EndKeys) :
        /\ cache' = DelFirst(cache, EndKeys, n)
        /\ IF n = Len(EndKeys)
           THEN /\ events' = Emit(events, DoneEvent(conv))
                /\ Terminate("complete")
                /\ pc' = "finished"
                /\ err' = err
                /\ storeThrew' = storeThrew
           ELSE /\ pc' = "hung"
                /\ err' = StoreError
                /\ storeThrew' = TRUE
                /\ UNCHANGED <<obsVars, tearVars>>
    /\ UNCHANGED <<callVars, dataVars, dbVars, connected, cutEarly, offRelay>>

\* cacheManager.del(`stream:${streamId}`) of the 'error' handler and of the
\* catch block
ErrorCleanupSkipped(store) == store
ErrorCleanup(store) == Del(store, StreamKey(StreamId))

\* 'error' handler: del of the stream key, error event, observer.error
ErrorHandler ==
    /\ pc = "errHandler"
    /\ \E ok \in BOOLEAN :
        IF ok
        THEN /\ cache' = ErrorCleanup(cache)
             /\ events' = Emit(events, ErrorEvent("message"))
             /\ Terminate("error")
             /\ pc' = "finished"
             /\ storeThrew' = storeThrew
        ELSE /\ pc' = "hung"
             /\ storeThrew' = TRUE
             /\ UNCHANGED <<cache, obsVars, tearVars>>
    /\ UNCHANGED <<callVars, dataVars, dbVars, connected, err, cutEarly, offRelay>>

\* catch block of streamChat
Catch ==
    /\ pc = "catch"
    /\ \E ok \in BOOLEAN :
        IF ~ok
        THEN /\ pc' = "hung"
             /\ storeThrew' = TRUE
             /\ UNCHANGED <<cache, obsVars, tearVars>>
        ELSE /\ cache' = ErrorCleanup(cache)
             /\ pc' = "finished"
             /\ storeThrew' = storeThrew
             /\ IF IsCanceled(err)
                THEN /\ events' = events
                     /\ Terminate("complete")
                ELSE /\ events' = Emit(events, ErrorEvent(ErrorMessage(err)))
                     /\ Terminate("error")
    /\ UNCHANGED <<callVars, dataVars, dbVars, connected, err, cutEarly, offRelay>>

(***************************************************************************)
(* The caller                                                              *)
(***************************************************************************)
\* The caller disconnects: the transport unsubscribes, which closes the
\* subscriber and runs the teardown.  When the stream of a call that listens
\* to the caller's signal is open, the HTTP client may report the abort as
\* an 'error' of that stream (it depends on the client's version).
Disconnect ==
    /\ connected
    /\ ~closed
    /\ connected' = FALSE
    /\ closed' = TRUE
    /\ cutEarly' = (responseStream = "null")
    /\ Teardown
    /\ IF pc = "streaming" /\ responseStream = "open"
       THEN \/ pc' = "torn" /\ err' = err
            \/ listening /\ pc' = "errHandler" /\ err' = CanceledError(attempt)
       ELSE pc' = pc /\ err' = err
    /\ UNCHANGED <<events, notified, callVars, dataVars, dbVars, cache, storeThrew, offRelay>>

Next ==
    \/ TrackStream
    \/ ResolveConversation
    \/ SaveUserMessage
    \/ LoadHistoryAndCall
    \/ Timeout
    \/ AttemptResponds
    \/ AttemptRejects
    \/ BackoffElapsed
    \/ DataChunk
    \/ StreamEnd
    \/ StreamError
    \/ EndSave
    \/ EndFinish
    \/ ErrorHandler
    \/ Catch
    \/ Disconnect

Spec == Init /\ [][Next]_vars

(***************************************************************************)
(* Requests through the rate-limit guard                                   *)
(***************************************************************************)
\* canActivate reads the route's metadata; without a limit it returns true
\* and the handler runs, with one it calls checkLimit.
Arrive(r) ==
    /\ gpc[r] = "idle"
    /\ \E rt \in Routes :
        /\ route' = [route EXCEPT ![r] = rt]
        /\ gpc' = [gpc EXCEPT ![r] = IF LimitOf(rt) = 0 THEN "handler" ELSE "get"]
    /\ allowed' = [allowed EXCEPT ![r] = "unchecked"]
    /\ failed' = [failed EXCEPT ![r] = FALSE]
    /\ current' = [current EXCEPT ![r] = 0]
    /\ UNCHANGED <<now, rlCount, rlExpiry, winStart, winAdmitted, offRate>>

\* catch block of checkLimit: return true
CheckLimitOnError == "allowed"

\* checkLimit: const current = await cacheManager.get(key), and the two
\* tests on it
CheckLimitGet(r) ==
    /\ gpc[r] = "get"
    /\ \E ok \in BOOLEAN :
        IF ~ok
        THEN /\ failed' = [failed EXCEPT ![r] = TRUE]
             /\ allowed' = [allowed EXCEPT ![r] = CheckLimitOnError]
             /\ gpc' = [gpc EXCEPT ![r] = "remaining"]
             /\ current' = current
        ELSE /\ failed' = failed
             /\ current' = [current EXCEPT ![r] = Stored]
             /\ IF Stored # 0 /\ Stored >= LimitOf(route[r])
                THEN /\ allowed' = [allowed EXCEPT ![r] = "denied"]
                     /\ gpc' = [gpc EXCEPT ![r] = "remaining"]
                ELSE /\ allowed' = allowed
                     /\ gpc' = [gpc EXCEPT ![r] = "set"]
    /\ UNCHANGED <<now, rlCount, rlExpiry, route, winStart, winAdmitted, offRate>>

\* The value checkLimit writes: 1 for the first request, current + 1 after
NextCount(cur) == IF cur = 0 THEN 1 ELSE cur + 1

\* checkLimit: await cacheManager.set(key, ..., windowSeconds); return true
CheckLimitSet(r) ==
    /\ gpc[r] = "set"
    /\ \E ok \in BOOLEAN :
        IF ok
        THEN /\ rlCount' = NextCount(current[r])
             /\ rlExpiry' = now + WindowSeconds
             /\ winStart' = IF Stored = 0 THEN now ELSE winStart
             /\ winAdmitted' = IF Stored = 0 THEN 1 ELSE winAdmitted + 1
             /\ allowed' = [allowed EXCEPT ![r] = "allowed"]
             /\ failed' = failed
        ELSE /\ failed' = [failed EXCEPT ![r] = TRUE]
             /\ allowed' = [allowed EXCEPT ![r] = CheckLimitOnError]
             /\ UNCHANGED <<rlCount, rlExpiry, winStart, winAdmitted>>
    /\ gpc' = [gpc EXCEPT ![r] = "remaining"]
    /\ UNCHANGED <<now, route, current, offRate>>

\* catch block of canActivate for an error that is no HttpException: return true
GuardOnStoreErrorRejects == "rejected"
GuardOnStoreError == "handler"

\* canActivate after checkLimit: getRemainingRequests (and getCurrentCount
\* for a denied request) read the store unguarded; then the 429 exception
\* or the headers and return true.
GuardFinish(r) ==
    /\ gpc[r] = "remaining"
    /\ \E ok \in BOOLEAN :
        IF ~ok
        THEN /\ failed' = [failed EXCEPT ![r] = TRUE]
             /\ gpc' = [gpc EXCEPT ![r] = GuardOnStoreError]
        ELSE /\ failed' = failed
             /\ gpc' = [gpc EXCEPT ![r] = IF allowed[r] = "denied" THEN "rejected" ELSE "handler"]
    /\ UNCHANGED <<now, rlCount, rlExpiry, route, current, allowed, winStart, winAdmitted, offRate>>

\* The request ends: its handler returned, or the 429 response was sent
RequestEnds(r) ==
    /\ gpc[r] \in {"handler", "rejected"}
    /\ gpc' = [gpc EXCEPT ![r] = "idle"]
    /\ UNCHANGED <<now, rlCount, rlExpiry, route, current, allowed, failed, winStart, winAdmitted, offRate>>

\* Time passes
Tick ==
    /\ now < MaxTime
    /\ now' = now + 1
    /\ UNCHANGED <<rlCount, rlExpiry, gpc, route, current, allowed, failed, winStart, winAdmitted, offRate>>

RateStep(r) ==
    \/ Arrive(r)
    \/ CheckLimitGet(r)
    \/ CheckLimitSet(r)
    \/ GuardFinish(r)
    \/ RequestEnds(r)

RateNext == Tick \/ \E r \in Requests : RateStep(r)

\* The relay is not part of these specifications: it stays in one initial state
RateSpecInit == RateInit /\ RelayInit /\ convGiven /\ cache = {} /\ CacheInit /\ GosInit /\ InvInit /\ RegInit /\ TrkInit /\ TitleInit /\ DemoInit /\ PrevInit /\ OwnInit /\ SendInit /\ StoreInit

\* Requests of one identity, any interleaving
RateSpec == RateSpecInit /\ [][RateNext]_vars

\* Requests of one identity issued one after another, the clock standing
\* still between the read and the write of one check
SeqRateNext == (gpc[1] # "set" /\ Tick) \/ RateStep(1)

SeqRateSpec == RateSpecInit /\ [][SeqRateNext]_vars

(***************************************************************************)
(* Message-list cache: getConversationMessages (CacheService.getOrSet) and *)
(* saveMessage (CacheService.invalidateConversation)                       *)
(***************************************************************************)
\* getConversationMessages is called
ReadStart(r) ==
    /\ rdpc[r] = "idle"
    /\ rdpc' = [rdpc EXCEPT ![r] = "get"]
    /\ fresh' = [fresh EXCEPT ![r] = (svpc = "idle")]
    /\ UNCHANGED <<messageRows, messagesEntry, value, returned, svpc, keysSeen, cacheFailed, offCache>>

\* getOrSet: cached = await cacheManager.get(key); a present value is returned
ReadGet(r) ==
    /\ rdpc[r] = "get"
    /\ \E ok \in BOOLEAN :
        IF ~ok
        THEN /\ rdpc' = [rdpc EXCEPT ![r] = "fallback"]
             /\ cacheFailed' = TRUE
             /\ returned' = returned
        ELSE /\ cacheFailed' = cacheFailed
             /\ IF messagesEntry # -1
                THEN /\ returned' = [returned EXCEPT ![r] = messagesEntry]
                     /\ rdpc' = [rdpc EXCEPT ![r] = "done"]
                ELSE /\ returned' = returned
                     /\ rdpc' = [rdpc EXCEPT ![r] = "factory"]
    /\ UNCHANGED <<messageRows, messagesEntry, value, fresh, svpc, keysSeen, offCache>>

\* getOrSet: value = await factory(), the find on the message table
ReadFactory(r) ==
    /\ rdpc[r] = "factory"
    /\ value' = [value EXCEPT ![r] = messageRows]
    /\ rdpc' = [rdpc EXCEPT ![r] = "set"]
    /\ UNCHANGED <<messageRows, messagesEntry, returned, fresh, svpc, keysSeen, cacheFailed, offCache>>

\* The entry getOrSet leaves after a miss
StoreValue(entry, v) == v

\* getOrSet: await cacheManager.set(key, value, ttl); return value
ReadSet(r) ==
    /\ rdpc[r] = "set"
    /\ \E ok \in BOOLEAN :
        IF ok
        THEN /\ messagesEntry' = StoreValue(messagesEntry, value[r])
             /\ returned' = [returned EXCEPT ![r] = value[r]]
             /\ rdpc' = [rdpc EXCEPT ![r] = "done"]
             /\ cacheFailed' = cacheFailed
        ELSE /\ rdpc' = [rdpc EXCEPT ![r] = "fallback"]
             /\ cacheFailed' = TRUE
             /\ UNCHANGED <<messagesEntry, returned>>
    /\ UNCHANGED <<messageRows, value, fresh, svpc, keysSeen, offCache>>

\* getOrSet, catch block: return factory()
ReadFallback(r) ==
    /\ rdpc[r] = "fallback"
    /\ returned' = [returned EXCEPT ![r] = messageRows]
    /\ rdpc' = [rdpc EXCEPT ![r] = "done"]
    /\ UNCHANGED <<messageRows, messagesEntry, value, fresh, svpc, keysSeen, cacheFailed, offCache>>

\* The caller has the list
ReadReturn(r) ==
    /\ rdpc[r] = "done"
    /\ rdpc' = [rdpc EXCEPT ![r] = "idle"]
    /\ UNCHANGED <<messageRows, messagesEntry, value, returned, fresh, svpc, keysSeen, cacheFailed, offCache>>

\* saveMessage: await messageRepository.save(message)
SaveRow ==
    /\ svpc = "idle"
    /\ messageRows < MaxSaves
    /\ messageRows' = messageRows + 1
    /\ svpc' = "delDetail"
    /\ fresh' = [r \in Readers |-> FALSE]
    /\ UNCHANGED <<messagesEntry, rdpc, value, returned, keysSeen, cacheFailed, offCache>>

\* invalidateConversation: await cacheManager.del of the detail key; a
\* failure rejects saveMessage before the message list is invalidated
DelDetail ==
    /\ svpc = "delDetail"
    /\ \E ok \in BOOLEAN :
        /\ svpc' = IF ok THEN "keys" ELSE "idle"
        /\ cacheFailed' = (cacheFailed \/ ~ok)
    /\ UNCHANGED <<messageRows, messagesEntry, rdpc, value, returned, fresh, keysSeen, offCache>>

\* invalidatePattern(messages:<id>): keys = await store.keys(), filtered
ListKeys ==
    /\ svpc = "keys"
    /\ \E ok \in BOOLEAN :
        /\ svpc' = IF ok THEN "del" ELSE "idle"
        /\ keysSeen' = (ok /\ messagesEntry # -1)
        /\ cacheFailed' = (cacheFailed \/ ~ok)
    /\ UNCHANGED <<messageRows, messagesEntry, rdpc, value, returned, fresh, offCache>>

\* invalidatePattern: await cacheManager.del(key) for the keys listed; then
\* the file-list pattern, and saveMessage returns
DelListed ==
    /\ svpc = "del"
    /\ \E ok \in BOOLEAN :
        /\ messagesEntry' = IF keysSeen /\ ok THEN -1 ELSE messagesEntry
        /\ cacheFailed' = (cacheFailed \/ (keysSeen /\ ~ok))
    /\ svpc' = "idle"
    /\ keysSeen' = FALSE
    /\ UNCHANGED <<messageRows, rdpc, value, returned, fresh, offCache>>

ReadStep(r) ==
    \/ ReadStart(r)
    \/ ReadGet(r)
    \/ ReadFactory(r)
    \/ ReadSet(r)
    \/ ReadFallback(r)
    \/ ReadReturn(r)

CacheNext ==
    \/ \E r \in Readers : ReadStep(r)
    \/ SaveRow
    \/ DelDetail
    \/ ListKeys
    \/ DelListed

CacheSpecInit == CacheInit /\ RelayInit /\ convGiven /\ cache = {} /\ RateInit /\ GosInit /\ InvInit /\ RegInit /\ TrkInit /\ TitleInit /\ DemoInit /\ PrevInit /\ OwnInit /\ SendInit /\ StoreInit

CacheSpec == CacheSpecInit /\ [][CacheNext]_vars

\* A relay on the conversation (streamChat): saveMessage of the user
\* message, then getConversationMessages for the upstream payload, as
\* reader 1; reader 2 is any other request reading the same list.
HistNext ==
    \/ rdpc[1] = "idle" /\ SaveRow
    \/ DelDetail
    \/ ListKeys
    \/ DelListed
    \/ svpc = "idle" /\ messageRows >= 1 /\ ReadStart(1)
    \/ ReadGet(1)
    \/ ReadFactory(1)
    \/ ReadSet(1)
    \/ ReadFallback(1)
    \/ ReadReturn(1)
    \/ ReadStep(2)

HistSpec == CacheSpecInit /\ [][HistNext]_vars

(***************************************************************************)
(* CacheService.getOrSet and CacheService.del on one key, called one after *)
(* another                                                                 *)
(***************************************************************************)
\* The window of calls on one entry starts again when the key is absent; a
\* call that is in its catch block belongs to the new window
ResetSince ==
    /\ sinceCalls' = 0
    /\ sinceComputes' = 0
    /\ sinceHealthy' = (gospc # "fallback")

\* getOrSet is called
GosStart ==
    /\ gospc = "idle"
    /\ sinceCalls < MaxCalls
    /\ gospc' = "get"
    /\ gosValue' = "undefined"
    /\ gosResult' = "none"
    /\ gosComputes' = 0
    /\ gosStoreFailed' = FALSE
    /\ UNCHANGED <<gosEntry, gosComputed, sinceCalls, sinceComputes, sinceHealthy,
                   gosInvalidated, offGos>>

\* if (cached !== undefined && cached !== null) with the hit taken on any
\* truthy value only
IsHitTruthy(cached) == cached # "undefined" /\ Truthy(cached)

\* if (cached !== undefined && cached !== null)
IsHit(cached) == cached \notin {"undefined", "null"}

\* cached = await cacheManager.get(key); a hit returns cached
GosGet ==
    /\ gospc = "get"
    /\ \E ok \in BOOLEAN :
        IF ~ok
        THEN /\ gospc' = "fallback"
             /\ gosStoreFailed' = TRUE
             /\ sinceHealthy' = FALSE
             /\ UNCHANGED <<gosResult, sinceCalls>>
        ELSE /\ UNCHANGED <<gosStoreFailed, sinceHealthy>>
             /\ IF IsHit(gosEntry)
                THEN /\ gosResult' = gosEntry
                     /\ gospc' = "done"
                     /\ sinceCalls' = sinceCalls + 1
                ELSE /\ gospc' = "factory"
                     /\ UNCHANGED <<gosResult, sinceCalls>>
    /\ UNCHANGED <<gosEntry, gosValue, gosComputed, gosComputes, sinceComputes,
                   gosInvalidated, offGos>>

\* value = await factory(); a rejection is caught by the catch of getOrSet
GosFactory ==
    /\ gospc = "factory"
    /\ gosComputes' = gosComputes + 1
    /\ sinceComputes' = sinceComputes + 1
    /\ \E out \in Values \cup {"throws"} :
        IF out = "throws"
        THEN /\ gospc' = "fallback"
             /\ sinceHealthy' = FALSE
             /\ UNCHANGED <<gosValue, gosComputed>>
        ELSE /\ gospc' = "set"
             /\ gosValue' = out
             /\ gosComputed' = out
             /\ sinceHealthy' = sinceHealthy
    /\ UNCHANGED <<gosEntry, gosResult, gosStoreFailed, sinceCalls, gosInvalidated, offGos>>

\* await cacheManager.set(key, value, ttl); return value
GosSet ==
    /\ gospc = "set"
    /\ \E ok \in BOOLEAN :
        IF ok
        THEN /\ gosEntry' = gosValue
             /\ gosResult' = gosValue
             /\ gospc' = "done"
             /\ sinceCalls' = sinceCalls + 1
             /\ UNCHANGED <<gosStoreFailed, sinceHealthy>>
        ELSE /\ gospc' = "fallback"
             /\ gosStoreFailed' = TRUE
             /\ sinceHealthy' = FALSE
             /\ UNCHANGED <<gosEntry, gosResult, sinceCalls>>
    /\ UNCHANGED <<gosValue, gosComputed, gosComputes, sinceComputes, gosInvalidated, offGos>>

\* catch block that rethrows what it caught
GosFallbackRethrows ==
    /\ gospc = "fallback"
    /\ gosResult' = IF gosStoreFailed THEN "StoreError" ELSE "FactoryError"
    /\ gospc' = "done"
    /\ sinceCalls' = sinceCalls + 1
    /\ UNCHANGED <<gosEntry, gosValue, gosComputed, gosComputes, gosStoreFailed,
                   sinceComputes, sinceHealthy, gosInvalidated, offGos>>

\* catch block: return factory()
GosFallback ==
    /\ gospc = "fallback"
    /\ gosComputes' = gosComputes + 1
    /\ sinceComputes' = sinceComputes + 1
    /\ \E out \in Values \cup {"throws"} :
        IF out = "throws"
        THEN /\ gosResult' = "FactoryError"
             /\ gosComputed' = gosComputed
        ELSE /\ gosResult' = out
             /\ gosComputed' = out
    /\ gospc' = "done"
    /\ sinceCalls' = sinceCalls + 1
    /\ UNCHANGED <<gosEntry, gosValue, gosStoreFailed, sinceHealthy, gosInvalidated, offGos>>

\* The caller has the result
GosReturn ==
    /\ gospc = "done"
    /\ gospc' = "idle"
    /\ UNCHANGED <<gosEntry, gosValue, gosResult, gosComputed, gosComputes, gosStoreFailed,
                   sinceCalls, sinceComputes, sinceHealthy, gosInvalidated, offGos>>

\* CacheService.del(key): a failure of the store is logged and swallowed
GosDel ==
    /\ gospc = "idle"
    /\ \E ok \in BOOLEAN :
        IF ok
        THEN /\ gosEntry' = "undefined"
             /\ gosInvalidated' = (gosInvalidated \/ gosEntry # "undefined")
             /\ ResetSince
        ELSE /\ sinceHealthy' = FALSE
             /\ UNCHANGED <<gosEntry, gosInvalidated, sinceCalls, sinceComputes>>
    /\ UNCHANGED <<gospc, gosValue, gosResult, gosComputed, gosComputes, gosStoreFailed, offGos>>

\* The ttl of the entry has elapsed
GosExpire ==
    /\ gosEntry # "undefined"
    /\ gosEntry' = "undefined"
    /\ ResetSince
    /\ UNCHANGED <<gospc, gosValue, gosResult, gosComputed, gosComputes, gosStoreFailed,
                   gosInvalidated, offGos>>

GosNext ==
    \/ GosStart
    \/ GosGet
    \/ GosFactory
    \/ GosSet
    \/ GosFallback
    \/ GosReturn
    \/ GosDel
    \/ GosExpire

GosSpecInit == GosInit /\ RelayInit /\ convGiven /\ cache = {} /\ RateInit /\ CacheInit /\ InvInit /\ RegInit /\ TrkInit /\ TitleInit /\ DemoInit /\ PrevInit /\ OwnInit /\ SendInit /\ StoreInit

GosSpec == GosSpecInit /\ [][GosNext]_vars

(***************************************************************************)
(* CacheService.invalidateConversation                                     *)
(***************************************************************************)
\* A read-through of ChatService stores an entry (getOrSet after a miss)
Populate ==
    /\ invpc = "idle"
    /\ \E c \in InvIds : \E k \in EntriesOf(c) :
        /\ k \notin invStore
        /\ invStore' = invStore \cup {k}
    /\ invRow' = 0
    /\ invOutcome' = "none"
    /\ UNCHANGED <<invpc, invId, invHadEntries, invFailed, invOnce, offInv>>

\* invalidateConversation(conversationId) is called
InvStart ==
    /\ invpc = "idle"
    /\ \E c \in InvIds :
        /\ invId' = c
        /\ invRow' = IF c = invId /\ invRow = 1 THEN 1 ELSE 0
        /\ invHadEntries' = (EntriesOf(c) \cap invStore # {})
    /\ invpc' = "del"
    /\ invOutcome' = "none"
    /\ invFailed' = FALSE
    /\ UNCHANGED <<invStore, invOnce, offInv>>

\* The call ends: it returned, or threw e; a row of calls is one in which
\* the store answered every operation
InvEnd(e, store, failedNow) ==
    /\ invpc' = "idle"
    /\ invOutcome' = e
    /\ invRow' = IF e = "ok" /\ ~failedNow THEN invRow + 1 ELSE 0
    /\ invOnce' = IF invRow = 0 THEN store ELSE invOnce

\* await this.cacheManager.del(`conversation:${conversationId}`): nothing
\* catches a failure of the store
InvDelDetail ==
    /\ invpc = "del"
    /\ \E ok \in BOOLEAN :
        IF ok
        THEN /\ invStore' = Del(invStore, ConversationKey(invId))
             /\ invpc' = "messages"
             /\ UNCHANGED <<invOutcome, invFailed, invRow, invOnce>>
        ELSE /\ invFailed' = TRUE
             /\ invStore' = invStore
             /\ InvEnd("StoreError", invStore, TRUE)
    /\ UNCHANGED <<invId, invHadEntries, offInv>>

\* await this.invalidatePattern(`messages:${conversationId}`)
InvMessages ==
    /\ invpc = "messages"
    /\ \E ok \in BOOLEAN :
        /\ invStore' = InvalidatePattern(invStore, MessagesKey(invId), ok)
        /\ invFailed' = (invFailed \/ ~ok)
    /\ invpc' = "files"
    /\ UNCHANGED <<invId, invOutcome, invHadEntries, invRow, invOnce, offInv>>

\* await this.invalidatePattern(`files:${conversationId}`); the call returns
InvFiles ==
    /\ invpc = "files"
    /\ \E ok \in BOOLEAN :
        /\ invStore' = InvalidatePattern(invStore, FilesKey(invId), ok)
        /\ invFailed' = (invFailed \/ ~ok)
        /\ InvEnd("ok", InvalidatePattern(invStore, FilesKey(invId), ok), invFailed \/ ~ok)
    /\ UNCHANGED <<invId, invHadEntries, offInv>>

InvNext ==
    \/ Populate
    \/ InvStart
    \/ InvDelDetail
    \/ InvMessages
    \/ InvFiles

InvSpecInit == InvInit /\ RelayInit /\ convGiven /\ cache = {} /\ RateInit /\ CacheInit /\ GosInit /\ RegInit /\ TrkInit /\ TitleInit /\ DemoInit /\ PrevInit /\ OwnInit /\ SendInit /\ StoreInit

InvSpec == InvSpecInit /\ [][InvNext]_vars

(***************************************************************************)
(* StreamService: register, updateActivity, unregister, the listings and   *)
(* the cleanup task.  The ttl arguments are seconds.                       *)
(***************************************************************************)
\* No register or unregister call is in progress
Quiet == \A i \in SessionIds : regpc[i] = "idle"

\* What every registry action but a listing and an unregister step does to
\* the records of the last listing and of the last unregister call
Forget == listed' = {} /\ before' = NoView

\* registerStream: the StreamInfo is stored under stream:<uuid> for
\* STREAM_TIMEOUT seconds, and the owner's list is read
RegisterSet(id) ==
    /\ regpc[id] = "idle"
    /\ status[id] = "never"
    /\ streams' = [streams EXCEPT ![id] =
                      [lastActivityAt |-> regNow,
                       expiresAt |-> regNow + STREAM_TIMEOUT * 1000,
                       ttlAt |-> regNow + STREAM_TIMEOUT * 1000]]
    /\ idxRead' = [idxRead EXCEPT ![id] = Index]
    /\ regpc' = [regpc EXCEPT ![id] = "regIndex"]
    /\ lastOp' = Op("none", "")
    /\ Forget
    /\ UNCHANGED <<regNow, regTicks, userStreams, userStreamsTtlAt, status, sweptOut, offReg>>

\* registerStream: streams.push(streamId); the list is stored; return
RegisterIndex(id) ==
    /\ regpc[id] = "regIndex"
    /\ userStreams' = Append(idxRead[id], id)
    /\ userStreamsTtlAt' = regNow + STREAM_TIMEOUT * 1000
    /\ regpc' = [regpc EXCEPT ![id] = "idle"]
    /\ status' = [status EXCEPT ![id] = "registered"]
    /\ lastOp' = Op("register", id)
    /\ Forget
    /\ UNCHANGED <<regNow, regTicks, streams, idxRead, sweptOut, offReg>>

\* updateActivity: lastActivityAt is set; the entry is stored again for
\* the whole seconds left up to expiresAt, if any is left
Touched(s, t) ==
    LET ttl == CeilDiv(s.expiresAt - t, 1000)
    IN IF ttl > 0
       THEN [s EXCEPT !.lastActivityAt = t, !.ttlAt = t + ttl * 1000]
       ELSE s

UpdateActivity(id) ==
    /\ regpc[id] = "idle"
    /\ Present(id)
    /\ streams' = [streams EXCEPT ![id] = Touched(streams[id], regNow)]
    /\ lastOp' = Op("touch", id)
    /\ Forget
    /\ UNCHANGED <<regNow, regTicks, userStreams, userStreamsTtlAt, regpc, idxRead,
                   status, sweptOut, offReg>>

\* unregisterStream: the session is read and, when there is one, the
\* owner's list
UnregisterGet(id) ==
    /\ regpc[id] = "idle"
    /\ before' = View
    /\ listed' = {}
    /\ lastOp' = Op("none", "")
    /\ IF Present(id)
       THEN /\ idxRead' = [idxRead EXCEPT ![id] = Index]
            /\ regpc' = [regpc EXCEPT ![id] = "unregIndex"]
       ELSE /\ idxRead' = idxRead
            /\ regpc' = [regpc EXCEPT ![id] = "unregDel"]
    /\ UNCHANGED <<regNow, regTicks, streams, userStreams, userStreamsTtlAt, status,
                   sweptOut, offReg>>

\* A filter that keeps every id
WithoutNothing(list, id) == list

\* streams.filter((sid) => sid !== streamId)
Without(list, id) == SelectSeq(list, LAMBDA sid : sid # id)

\* unregisterStream: the filtered list is stored
UnregisterIndex(id) ==
    /\ regpc[id] = "unregIndex"
    /\ userStreams' = Without(idxRead[id], id)
    /\ userStreamsTtlAt' = regNow + STREAM_TIMEOUT * 1000
    /\ regpc' = [regpc EXCEPT ![id] = "unregDel"]
    /\ listed' = {}
    /\ UNCHANGED <<regNow, regTicks, streams, idxRead, status, lastOp, before,
                   sweptOut, offReg>>

\* unregisterStream: await this.cacheManager.del(key); return
UnregisterDel(id) ==
    /\ regpc[id] = "unregDel"
    /\ streams' = [streams EXCEPT ![id] = NoStream]
    /\ regpc' = [regpc EXCEPT ![id] = "idle"]
    /\ status' = [status EXCEPT ![id] = IF @ = "registered" THEN "deregistered" ELSE @]
    /\ lastOp' = Op("unregister", id)
    /\ listed' = {}
    /\ UNCHANGED <<regNow, regTicks, userStreams, userStreamsTtlAt, idxRead, before,
                   sweptOut, offReg>>

\* getAllActiveStreams: the stream: keys of the store that still answer
GetAllActiveStreams ==
    /\ listed' = {i \in SessionIds : Present(i)}
    /\ lastOp' = Op("list", "all")
    /\ before' = NoView
    /\ UNCHANGED <<regNow, regTicks, streams, userStreams, userStreamsTtlAt, regpc,
                   idxRead, status, sweptOut, offReg>>

\* getUserActiveStreams: the ids of the owner's list whose entry answers
GetUserActiveStreams ==
    /\ listed' = {i \in SessionIds : Present(i) /\ \E k \in 1..Len(Index) : Index[k] = i}
    /\ lastOp' = Op("list", "user")
    /\ before' = NoView
    /\ UNCHANGED <<regNow, regTicks, streams, userStreams, userStreamsTtlAt, regpc,
                   idxRead, status, sweptOut, offReg>>

\* getStreamCount: the stream: keys of the store are counted
GetStreamCount ==
    /\ listed' = {i \in SessionIds : Present(i)}
    /\ lastOp' = Op("list", "count")
    /\ before' = NoView
    /\ UNCHANGED <<regNow, regTicks, streams, userStreams, userStreamsTtlAt, regpc,
                   idxRead, status, sweptOut, offReg>>

\* A cleanup that finds nothing expired
IsExpiredNever(t, s) == FALSE

\* cleanupExpiredStreams: now >= expiresAt
IsExpired(t, s) == t >= s.expiresAt

\* The list after unregisterStream of each id in gone, one after another
RECURSIVE WithoutAll(_, _)
WithoutAll(list, gone) ==
    IF gone = {} THEN list
    ELSE LET id == CHOOSE i \in gone : TRUE
         IN WithoutAll(Without(list, id), gone \ {id})

\* The cleanup task: every listed session that has expired is unregistered
CleanupExpiredStreams ==
    /\ LET gone == {i \in SessionIds : Present(i) /\ IsExpired(regNow, streams[i])}
       IN /\ streams' = [i \in SessionIds |-> IF i \in gone THEN NoStream ELSE streams[i]]
          /\ IF gone = {}
             THEN UNCHANGED <<userStreams, userStreamsTtlAt>>
             ELSE /\ userStreams' = WithoutAll(Index, gone)
                  /\ userStreamsTtlAt' = regNow + STREAM_TIMEOUT * 1000
          /\ sweptOut' = sweptOut \cup gone
    /\ lastOp' = Op("sweep", "")
    /\ Forget
    /\ UNCHANGED <<regNow, regTicks, regpc, idxRead, status, offReg>>

\* Time passes
Advance ==
    /\ regTicks < MaxAdvances
    /\ \E d \in Advances : regNow' = regNow + d
    /\ regTicks' = regTicks + 1
    /\ lastOp' = Op("advance", "")
    /\ Forget
    /\ UNCHANGED <<streams, userStreams, userStreamsTtlAt, regpc, idxRead, status,
                   sweptOut, offReg>>

\* Calls made one after another: a call, a listing, the cleanup task or a
\* step of the clock begins only when no call is in progress
SeqRegNext ==
    \/ \E id \in SessionIds : Quiet /\ RegisterSet(id)
    \/ \E id \in SessionIds : RegisterIndex(id)
    \/ \E id \in SessionIds : Quiet /\ UpdateActivity(id)
    \/ \E id \in SessionIds : Quiet /\ UnregisterGet(id)
    \/ \E id \in SessionIds : UnregisterIndex(id)
    \/ \E id \in SessionIds : UnregisterDel(id)
    \/ Quiet /\ GetAllActiveStreams
    \/ Quiet /\ GetUserActiveStreams
    \/ Quiet /\ GetStreamCount
    \/ Quiet /\ CleanupExpiredStreams
    \/ Quiet /\ Advance

RegSpecInit == RegInit /\ RelayInit /\ convGiven /\ cache = {} /\ RateInit /\ CacheInit /\ GosInit /\ InvInit /\ TrkInit /\ TitleInit /\ DemoInit /\ PrevInit /\ OwnInit /\ SendInit /\ StoreInit

SeqRegSpec == RegSpecInit /\ [][SeqRegNext]_vars

\* Calls of one owner's requests made concurrently: the steps of register
\* and unregister calls interleave freely, with each other and with the
\* owner's listing
RegNext ==
    \/ \E id \in SessionIds : RegisterSet(id)
    \/ \E id \in SessionIds : RegisterIndex(id)
    \/ \E id \in SessionIds : UnregisterGet(id)
    \/ \E id \in SessionIds : UnregisterIndex(id)
    \/ \E id \in SessionIds : UnregisterDel(id)
    \/ GetUserActiveStreams
    \/ Advance

RegSpec == RegSpecInit /\ [][RegNext]_vars

(***************************************************************************)
(* streamChat: the session entries of two relays of one owner              *)
(***************************************************************************)
\* streamId is made and the session is tracked under stream:<streamId>
TrkStart(r) ==
    /\ trkpc[r] = "idle"
    /\ trkId' = [trkId EXCEPT ![r] = StreamIdAt(UserId, trkNow)]
    /\ trkStore' = trkStore \cup {StreamKey(StreamIdAt(UserId, trkNow))}
    /\ trkpc' = [trkpc EXCEPT ![r] = "inflight"]
    /\ UNCHANGED <<trkNow, offTrk>>

\* The relay completes or fails: cacheManager.del(`stream:${streamId}`)
TrkEnd(r) ==
    /\ trkpc[r] = "inflight"
    /\ trkStore' = Del(trkStore, StreamKey(trkId[r]))
    /\ trkpc' = [trkpc EXCEPT ![r] = "ended"]
    /\ UNCHANGED <<trkNow, trkId, offTrk>>

\* The connection serves its next request
TrkAgain(r) ==
    /\ trkpc[r] = "ended"
    /\ trkpc' = [trkpc EXCEPT ![r] = "idle"]
    /\ UNCHANGED <<trkNow, trkId, trkStore, offTrk>>

\* A millisecond passes
TrkTick ==
    /\ trkNow < MaxClock
    /\ trkNow' = trkNow + 1
    /\ UNCHANGED <<trkpc, trkId, trkStore, offTrk>>

TrkNext ==
    \/ \E r \in Relays : TrkStart(r)
    \/ \E r \in Relays : TrkEnd(r)
    \/ \E r \in Relays : TrkAgain(r)
    \/ TrkTick

TrkSpecInit == TrkInit /\ RelayInit /\ convGiven /\ cache = {} /\ RateInit /\ CacheInit /\ GosInit /\ InvInit /\ RegInit /\ TitleInit /\ DemoInit /\ PrevInit /\ OwnInit /\ SendInit /\ StoreInit

TrkSpec == TrkSpecInit /\ [][TrkNext]_vars

(***************************************************************************)
(* AiGatewayService.generateTitleFromMessage                               *)
(***************************************************************************)
\* String.prototype.trim
RECURSIVE TrimStart(_)
TrimStart(s) ==
    IF s # <<>> /\ Head(s) \in WhiteSpace THEN TrimStart(Tail(s)) ELSE s

RECURSIVE TrimEnd(_)
TrimEnd(s) ==
    IF s # <<>> /\ s[Len(s)] \in WhiteSpace THEN TrimEnd(SubSeq(s, 1, Len(s) - 1)) ELSE s

Trim(s) == TrimEnd(TrimStart(s))

\* replace(/\s+/g, ' ')
RECURSIVE CollapseWhiteSpace(_)
CollapseWhiteSpace(s) ==
    IF s = <<>> THEN <<>>
    ELSE IF Head(s) \in WhiteSpace
         THEN <<" ">> \o CollapseWhiteSpace(TrimStart(s))
         ELSE <<Head(s)>> \o CollapseWhiteSpace(Tail(s))

\* const cleanMessage = message.trim().replace(/\s+/g, ' ')
CleanMessage(message) == CollapseWhiteSpace(Trim(message))

\* Index (from 1) of the first mark of s, 0 when it has none
FirstMark(s) ==
    IF \E i \in 1..Len(s) : s[i] \in Marks
    THEN CHOOSE i \in 1..Len(s) : s[i] \in Marks /\ \A j \in 1..(i - 1) : s[j] \notin Marks
    ELSE 0

\* cleanMessage.match(/^[^.!?]+[.!?]/): the match, <<>> when there is none
SentenceEndMatch(s) ==
    IF FirstMark(s) > 1 THEN SubSeq(s, 1, FirstMark(s)) ELSE <<>>

\* truncated.lastIndexOf(' '): index from 0, -1 when there is none
LastIndexOf(s, c) ==
    IF \E i \in 1..Len(s) : s[i] = c
    THEN (CHOOSE i \in 1..Len(s) : s[i] = c /\ \A j \in (i + 1)..Len(s) : s[j] # c) - 1
    ELSE -1

\* s.substring(0, n)
Substring0(s, n) == SubSeq(s, 1, IF n < Len(s) THEN n ELSE Len(s))

\* A cut at any blank
CutsBackAtAnyBlank(lastSpaceIndex) == lastSpaceIndex > 0

\* if (lastSpaceIndex > 30)
CutsBack(lastSpaceIndex) == lastSpaceIndex > BoundaryMin

GenerateTitleFromMessage(message) ==
    LET cleanMessage == CleanMessage(message)
        sentence == Trim(SentenceEndMatch(cleanMessage))
        truncated == Substring0(cleanMessage, TitleMax)
        lastSpaceIndex == LastIndexOf(truncated, " ")
    IN IF sentence # <<>> /\ Len(sentence) <= SentenceMax THEN sentence
       ELSE IF Len(cleanMessage) <= TitleMax THEN cleanMessage
       ELSE IF CutsBack(lastSpaceIndex) THEN Substring0(truncated, lastSpaceIndex) \o Ellipsis
       ELSE truncated \o Ellipsis

\* The title of the message is derived
GenerateTitle ==
    /\ ~titled
    /\ titled' = TRUE
    /\ title' = GenerateTitleFromMessage(titleMessage)
    /\ UNCHANGED <<titleMessage, offTitle>>

TitleNext == GenerateTitle

TitleSpecInit == titleMessage \in Messages /\ titled = FALSE /\ title = <<>> /\ RelayInit /\ convGiven /\ cache = {} /\ RateInit /\ CacheInit /\ GosInit /\ InvInit /\ RegInit /\ TrkInit /\ DemoInit /\ PrevInit /\ OwnInit /\ SendInit /\ StoreInit

TitleSpec == TitleSpecInit /\ [][TitleNext]_vars

(***************************************************************************)
(* DemoService.createConversation                                          *)
(***************************************************************************)
\* const count = await this.conversationRepository.count(...)
DemoCount(c) ==
    /\ dpc[c] = "idle"
    /\ dcount' = [dcount EXCEPT ![c] = demoRows]
    /\ dpc' = [dpc EXCEPT ![c] = "counted"]
    /\ UNCHANGED <<demoRows, offDemo>>

\* if (count >= DEMO_LIMITS.MAX_CONVERSATIONS) throw BadRequestException
DemoReject(c) ==
    /\ dpc[c] = "counted"
    /\ dcount[c] >= MAX_CONVERSATIONS
    /\ dpc' = [dpc EXCEPT ![c] = "idle"]
    /\ UNCHANGED <<demoRows, dcount, offDemo>>

\* await this.chatService.createConversation(demoUserId, ...); return
DemoCreate(c) ==
    /\ dpc[c] = "counted"
    /\ dcount[c] < MAX_CONVERSATIONS
    /\ demoRows' = demoRows + 1
    /\ dpc' = [dpc EXCEPT ![c] = "idle"]
    /\ UNCHANGED <<dcount, offDemo>>

DemoNext ==
    \/ \E c \in Creators : DemoCount(c)
    \/ \E c \in Creators : DemoReject(c)
    \/ \E c \in Creators : DemoCreate(c)

DemoSpecInit == DemoInit /\ RelayInit /\ convGiven /\ cache = {} /\ RateInit /\ CacheInit /\ GosInit /\ InvInit /\ RegInit /\ TrkInit /\ TitleInit /\ PrevInit /\ OwnInit /\ SendInit /\ StoreInit

DemoSpec == DemoSpecInit /\ [][DemoNext]_vars

(***************************************************************************)
(* PreviewController.getPublicConversation + PreviewService                *)
(* .getPublicConversation, and ChatService.togglePublicStatus              *)
(***************************************************************************)
\* A preview request ends with the answer out.  A 200 answer passes back
\* through @UseInterceptors(CacheInterceptor), which stores it under the
\* request URL; an exception is not stored.
PreviewEnd(r, out) ==
    /\ pOut' = [pOut EXCEPT ![r] = out]
    /\ ppc' = [ppc EXCEPT ![r] = "done"]
    /\ routeCached' = (routeCached \/ out = "content")

\* GET /preview/:conversationId reaches the CacheInterceptor: a stored
\* response is returned without calling the handler.
PreviewStart(r) ==
    /\ ppc[r] = "idle"
    /\ pLate' = [pLate EXCEPT ![r] = madePrivate]
    /\ IF routeCached
       THEN PreviewEnd(r, "content")
       ELSE /\ ppc' = [ppc EXCEPT ![r] = "handler"]
            /\ UNCHANGED <<pOut, routeCached>>
    /\ UNCHANGED <<isPublic, publicCached, tpc, tArg, madePrivate, offPrev>>

\* const cached = await this.cacheManager.get(cacheKey); if (cached) return
PreviewGet(r) ==
    /\ ppc[r] = "handler"
    /\ IF publicCached
       THEN PreviewEnd(r, "content")
       ELSE /\ ppc' = [ppc EXCEPT ![r] = "find"]
            /\ UNCHANGED <<pOut, routeCached>>
    /\ UNCHANGED <<isPublic, publicCached, pLate, tpc, tArg, madePrivate, offPrev>>

\* findOne({ where: { id, isPublic: true } }); if (!conversation) throw
PreviewFind(r) ==
    /\ ppc[r] = "find"
    /\ IF isPublic
       THEN /\ ppc' = [ppc EXCEPT ![r] = "found"]
            /\ UNCHANGED <<pOut, routeCached>>
       ELSE PreviewEnd(r, "notfound")
    /\ UNCHANGED <<isPublic, publicCached, pLate, tpc, tArg, madePrivate, offPrev>>

\* messages and files are read, then
\* await this.cacheManager.set(cacheKey, result, 600000); return result
PreviewSet(r) ==
    /\ ppc[r] = "found"
    /\ publicCached' = TRUE
    /\ PreviewEnd(r, "content")
    /\ UNCHANGED <<isPublic, pLate, tpc, tArg, madePrivate, offPrev>>

\* The answer has been sent; the request slot is free again.
PreviewReturn(r) ==
    /\ ppc[r] = "done"
    /\ ppc' = [ppc EXCEPT ![r] = "idle"]
    /\ pOut' = [pOut EXCEPT ![r] = "none"]
    /\ pLate' = [pLate EXCEPT ![r] = FALSE]
    /\ UNCHANGED <<isPublic, publicCached, routeCached, tpc, tArg, madePrivate, offPrev>>

\* togglePublicStatus(id, owner, p): findOne({ where: { id, userId } })
\* finds the owner's row.  Sharing again ends the private period.
ToggleFind(p) ==
    /\ tpc = "idle"
    /\ tpc' = "found"
    /\ tArg' = p
    /\ madePrivate' = (madePrivate /\ ~p)
    /\ pLate' = [r \in Previewers |-> pLate[r] /\ ~p]
    /\ UNCHANGED <<isPublic, publicCached, routeCached, ppc, pOut, offPrev>>

\* conversation.isPublic = isPublic; await conversationRepository.save
ToggleSave ==
    /\ tpc = "found"
    /\ isPublic' = tArg
    /\ tpc' = "saved"
    /\ UNCHANGED <<publicCached, routeCached, ppc, pOut, pLate, tArg, madePrivate, offPrev>>

\* invalidateConversation, invalidatePattern(conversations:<owner>), then
\* invalidatePattern(public_conversation:<id>), which deletes the keys that
\* include the pattern and swallows a store failure; then return.  The
\* interceptor's key is the URL /preview/<id> and includes no such pattern.
ToggleInvalidate ==
    /\ tpc = "saved"
    /\ \E ok \in BOOLEAN : publicCached' = (publicCached /\ ~ok)
    /\ tpc' = "idle"
    /\ madePrivate' = ~tArg
    /\ UNCHANGED <<isPublic, routeCached, ppc, pOut, pLate, tArg, offPrev>>

\* The store drops an entry whose TTL is over.
PreviewExpire ==
    /\ publicCached \/ routeCached
    /\ \/ publicCached' = FALSE /\ UNCHANGED routeCached
       \/ routeCached' = FALSE /\ UNCHANGED publicCached
    /\ UNCHANGED <<isPublic, ppc, pOut, pLate, tpc, tArg, madePrivate, offPrev>>

PrevNext ==
    \/ \E r \in Previewers : PreviewStart(r)
    \/ \E r \in Previewers : PreviewGet(r)
    \/ \E r \in Previewers : PreviewFind(r)
    \/ \E r \in Previewers : PreviewSet(r)
    \/ \E r \in Previewers : PreviewReturn(r)
    \/ \E p \in BOOLEAN : ToggleFind(p)
    \/ ToggleSave
    \/ ToggleInvalidate
    \/ PreviewExpire

PrevSpecInit == PrevInit /\ RelayInit /\ convGiven /\ cache = {} /\ RateInit /\ CacheInit /\ GosInit /\ InvInit /\ RegInit /\ TrkInit /\ TitleInit /\ DemoInit /\ OwnInit /\ SendInit /\ StoreInit

PrevSpec == PrevSpecInit /\ [][PrevNext]_vars

(***************************************************************************)
(* ChatService.findConversationById(id, userId) over CacheService.getOrSet *)
(* and the relay that calls it                                             *)
(***************************************************************************)
\* conversationRepository.findOne({ where: { id, userId } }) finds the row
FindOne(u) == u = Owner

\* streamChat(userId, message, conversationId) calls
\* findConversationById(conversationId, userId)
FindStart(u) ==
    /\ fpc[u] = "idle"
    /\ fpc' = [fpc EXCEPT ![u] = "get"]
    /\ fOut' = [fOut EXCEPT ![u] = "none"]
    /\ UNCHANGED <<detailCached, appendedBy, offOwn>>

\* getOrSet(`conversation:${id}`, ...): cached = await cacheManager.get(key);
\* a present value is returned as it is
FindGet(u) ==
    /\ fpc[u] = "get"
    /\ \E ok \in BOOLEAN :
        IF ~ok
        THEN /\ fpc' = [fpc EXCEPT ![u] = "fallback"]
             /\ fOut' = fOut
        ELSE IF detailCached
        THEN /\ fOut' = [fOut EXCEPT ![u] = "conversation"]
             /\ fpc' = [fpc EXCEPT ![u] = "found"]
        ELSE /\ fpc' = [fpc EXCEPT ![u] = "factory"]
             /\ fOut' = fOut
    /\ UNCHANGED <<detailCached, appendedBy, offOwn>>

\* value = await factory(): findOne, throw NotFoundException without a row
\* (the throw lands in getOrSet's catch block); then cacheManager.set
FindFactory(u) ==
    /\ fpc[u] = "factory"
    /\ IF FindOne(u)
       THEN \E ok \in BOOLEAN :
            IF ok
            THEN /\ detailCached' = TRUE
                 /\ fOut' = [fOut EXCEPT ![u] = "conversation"]
                 /\ fpc' = [fpc EXCEPT ![u] = "found"]
            ELSE /\ fpc' = [fpc EXCEPT ![u] = "fallback"]
                 /\ UNCHANGED <<detailCached, fOut>>
       ELSE /\ fpc' = [fpc EXCEPT ![u] = "fallback"]
            /\ UNCHANGED <<detailCached, fOut>>
    /\ UNCHANGED <<appendedBy, offOwn>>

\* getOrSet, catch block: return factory()
FindFallback(u) ==
    /\ fpc[u] = "fallback"
    /\ IF FindOne(u)
       THEN /\ fOut' = [fOut EXCEPT ![u] = "conversation"]
            /\ fpc' = [fpc EXCEPT ![u] = "found"]
       ELSE /\ fOut' = [fOut EXCEPT ![u] = "notfound"]
            /\ fpc' = [fpc EXCEPT ![u] = "failed"]
    /\ UNCHANGED <<detailCached, appendedBy, offOwn>>

\* streamChat: saveMessage(conversation.id, USER, message): the row is
\* written, then invalidateConversation deletes the detail key
RelayAppend(u) ==
    /\ fpc[u] = "found"
    /\ appendedBy' = appendedBy \cup {u}
    /\ \E ok \in BOOLEAN : detailCached' = (detailCached /\ ~ok)
    /\ fpc' = [fpc EXCEPT ![u] = "idle"]
    /\ UNCHANGED <<fOut, offOwn>>

\* streamChat's catch block ends the relay of a caller without conversation
RelayFails(u) ==
    /\ fpc[u] = "failed"
    /\ fpc' = [fpc EXCEPT ![u] = "idle"]
    /\ UNCHANGED <<detailCached, fOut, appendedBy, offOwn>>

\* The store drops the entry when its TTL is over
DetailExpire ==
    /\ detailCached
    /\ detailCached' = FALSE
    /\ UNCHANGED <<fpc, fOut, appendedBy, offOwn>>

OwnNext ==
    \/ \E u \in Callers : FindStart(u)
    \/ \E u \in Callers : FindGet(u)
    \/ \E u \in Callers : FindFactory(u)
    \/ \E u \in Callers : FindFallback(u)
    \/ \E u \in Callers : RelayAppend(u)
    \/ \E u \in Callers : RelayFails(u)
    \/ DetailExpire

OwnSpecInit == OwnInit /\ RelayInit /\ convGiven /\ cache = {} /\ RateInit /\ CacheInit /\ GosInit /\ InvInit /\ RegInit /\ TrkInit /\ TitleInit /\ DemoInit /\ PrevInit /\ SendInit /\ StoreInit

OwnSpec == OwnSpecInit /\ [][OwnNext]_vars

(***************************************************************************)
(* chatAPI.sendMessage / demoAPI.sendMessage (async generators)            *)
(***************************************************************************)
\* errorMessage.includes(part)
MessageIncludes(msg, part) ==
    \/ msg = part
    \/ part = "400" /\ msg \in {"400 Bad Request", "Request failed with status code 400"}

\* const shouldRetry = attempt < maxRetries && ... of the catch block
ShouldRetry(api, att, msg) ==
    /\ att < maxRetries
    /\ IF api = "chat"
       THEN /\ ~MessageIncludes(msg, "401")
            /\ ~MessageIncludes(msg, "403")
            /\ ~MessageIncludes(msg, "400")
       ELSE ~MessageIncludes(msg, "DEMO_LIMIT_REACHED")

\* await fetch(url, { method: 'POST', ... }): the request is issued; the
\* response is ok, or not ok (an Error with the status is thrown), or fetch
\* rejects
SendFetch ==
    /\ spc = "fetch"
    /\ posts' = posts + 1
    /\ reposted' = (reposted \/ yielded > 0)
    /\ \/ spc' = "stream" /\ lastError' = lastError
       \/ \E msg \in HttpMessages \cup {NetworkMessage} :
            spc' = "catch" /\ lastError' = msg
    /\ UNCHANGED <<sendApi, sendAttempt, yielded, offSend>>

\* reader.read() gives a chunk with a payload line: yield parsed
SendYield ==
    /\ spc = "stream"
    /\ yielded < MaxChunks
    /\ yielded' = yielded + 1
    /\ UNCHANGED <<sendApi, spc, sendAttempt, lastError, posts, reposted, offSend>>

\* A line of type 'error': throw new Error(parsed.error || ...); or
\* reader.read() rejects.  Both are thrown inside the try of the loop.
SendStreamFails ==
    /\ spc = "stream"
    /\ \E msg \in StreamMessages \cup {NetworkMessage} : lastError' = msg
    /\ spc' = "catch"
    /\ UNCHANGED <<sendApi, sendAttempt, posts, yielded, reposted, offSend>>

\* data === '[DONE]' or done: return
SendDone ==
    /\ spc = "stream"
    /\ spc' = "returned"
    /\ UNCHANGED <<sendApi, sendAttempt, lastError, posts, yielded, reposted, offSend>>

\* catch (error): throw lastError, or await sleep(delay)
SendCatch ==
    /\ spc = "catch"
    /\ spc' = IF ShouldRetry(sendApi, sendAttempt, lastError) THEN "sleep" ELSE "thrown"
    /\ UNCHANGED <<sendApi, sendAttempt, lastError, posts, yielded, reposted, offSend>>

\* sleep is over: attempt++ and the loop body runs again
SendRetry ==
    /\ spc = "sleep"
    /\ sendAttempt' = sendAttempt + 1
    /\ spc' = "fetch"
    /\ UNCHANGED <<sendApi, lastError, posts, yielded, reposted, offSend>>

SendNext ==
    \/ SendFetch
    \/ SendYield
    \/ SendStreamFails
    \/ SendDone
    \/ SendCatch
    \/ SendRetry

SendSpecInit == sendApi \in {"chat", "demo"} /\ spc = "fetch" /\ sendAttempt = 0 /\ lastError = "none" /\ posts = 0 /\ yielded = 0 /\ reposted = FALSE /\ RelayInit /\ convGiven /\ cache = {} /\ RateInit /\ CacheInit /\ GosInit /\ InvInit /\ RegInit /\ TrkInit /\ TitleInit /\ DemoInit /\ PrevInit /\ OwnInit /\ StoreInit

SendSpec == SendSpecInit /\ [][SendNext]_vars

(***************************************************************************)
(* useDemoStore.sendMessage / stopStreaming over demoAPI.sendMessage       *)
(***************************************************************************)
\* sendMessage(message): a new AbortController, set({ isSending: true,
\* abortController }), and the generator is started with its signal.  The
\* page sends only while the store reports no send in progress.
StoreSend(m) ==
    /\ mpc[m] = "idle"
    /\ ~isSending
    /\ isSending' = TRUE
    /\ abortController' = m
    /\ mpc' = [mpc EXCEPT ![m] = "streaming"]
    /\ mAttempt' = [mAttempt EXCEPT ![m] = 0]
    /\ mAborted' = [mAborted EXCEPT ![m] = FALSE]
    /\ mChunks' = [mChunks EXCEPT ![m] = 0]
    /\ UNCHANGED offStore

\* for await (const chunk of demoAPI.sendMessage(...)): a content chunk
StoreChunk(m) ==
    /\ mpc[m] = "streaming"
    /\ ~mAborted[m]
    /\ mChunks[m] < MaxChunks
    /\ mChunks' = [mChunks EXCEPT ![m] = @ + 1]
    /\ UNCHANGED <<isSending, abortController, mpc, mAttempt, mAborted, offStore>>

\* set({ isSending: false, ..., abortController: null }) after the loop, and
\* in the catch blocks
Cleared ==
    /\ isSending' = FALSE
    /\ abortController' = 0

\* The for await loop ends: the stream completed
StoreComplete(m) ==
    /\ mpc[m] = "streaming"
    /\ ~mAborted[m]
    /\ Cleared
    /\ mpc' = [mpc EXCEPT ![m] = "idle"]
    /\ UNCHANGED <<mAttempt, mAborted, mChunks, offStore>>

\* stopStreaming: abort() of the stored controller, then
\* set({ abortController: null, isSending: false })
StopStreaming ==
    /\ abortController # 0
    /\ mAborted' = [mAborted EXCEPT ![abortController] = TRUE]
    /\ Cleared
    /\ UNCHANGED <<mpc, mAttempt, mChunks, offStore>>

\* demoAPI.sendMessage, catch block, for the rejection of a fetch or read
\* on an aborted signal: sleep and fetch again, or throw lastError
AbortCaught(m) ==
    /\ mpc[m] \in {"streaming", "sleep"}
    /\ mAborted[m]
    /\ IF ShouldRetry("demo", mAttempt[m], AbortMessage)
       THEN /\ mpc' = [mpc EXCEPT ![m] = "sleep"]
            /\ mAttempt' = [mAttempt EXCEPT ![m] = @ + 1]
       ELSE /\ mpc' = [mpc EXCEPT ![m] = "thrown"]
            /\ mAttempt' = mAttempt
    /\ UNCHANGED <<isSending, abortController, mAborted, mChunks, offStore>>

\* sendMessage, catch (error) for the AbortError: the message list is
\* tidied and isSending and abortController are cleared
StoreCatch(m) ==
    /\ mpc[m] = "thrown"
    /\ Cleared
    /\ mpc' = [mpc EXCEPT ![m] = "idle"]
    /\ UNCHANGED <<mAttempt, mAborted, mChunks, offStore>>

StoreNext ==
    \/ \E m \in Sends : StoreSend(m)
    \/ \E m \in Sends : StoreChunk(m)
    \/ \E m \in Sends : StoreComplete(m)
    \/ StopStreaming
    \/ \E m \in Sends : AbortCaught(m)
    \/ \E m \in Sends : StoreCatch(m)

StoreSpecInit == StoreInit /\ RelayInit /\ convGiven /\ cache = {} /\ RateInit /\ CacheInit /\ GosInit /\ InvInit /\ RegInit /\ TrkInit /\ TitleInit /\ DemoInit /\ PrevInit /\ OwnInit /\ SendInit

StoreSpec == StoreSpecInit /\ [][StoreNext]_vars

(***************************************************************************)
(* Properties                                                              *)
(***************************************************************************)
IsTerminal(e) == e.kind \in {"done", "error"}
IsPayload(e) == ~IsTerminal(e)
IsDone(e) == e.kind = "done"
IsError(e) == e.kind = "error"

\* Concatenation of the content fields of a sequence of events
ConcatContents(evs) == Flatten([i \in 1..Len(evs) |-> evs[i].content])

\* The relay has nothing left to run
Ended == pc \in {"finished", "hung", "torn"}

\* An upstream failure with an HTTP status in 400-499
UpstreamClientError(e) == e.att >= 1 /\ e.status \in 400..499

\* An upstream failure the retry policy calls transient: 5xx or no response
UpstreamTransient(e) == e.att >= 1 /\ ~IsCanceled(e) /\ (e.status = 0 \/ e.status \in 500..599)

\* min(1000 * 2^(k-1), 10000)
SpecDelay(k) == IF 1000 * 2^(k - 1) < 10000 THEN 1000 * 2^(k - 1) ELSE 10000

\* C1: once the caller has disconnected, the retry wrapper starts no
\* further upstream attempt (neither after an attempt that was in flight
\* nor when a backoff wait that was already scheduled ends).
C1_NoAttemptAfterDisconnect ==
    [][(~connected /\ attempt >= 1) => attempt' = attempt]_vars

\* C2: while the caller is disconnected, every upstream call in flight is
\* cancelled (also a retried one and one issued after the disconnect) and
\* no upstream response stream is left open.
C2_DisconnectCancelsUpstream ==
    ~connected =>
        /\ (pc = "inflight" => ctrlAborted)
        /\ responseStream # "open"

\* C3: with the caller connected and only transient failures, the wrapper
\* makes exactly 3 attempts, waits min(1000 * 2^(k-1), 10000) ms after the
\* k-th failed attempt, and rethrows the 3rd failure without a further wait.
C3_TransientRetrySchedule ==
    /\ attempt <= 3
    /\ Len(delays) <= 2
    /\ \A k \in 1..Len(delays) : delays[k] = SpecDelay(k)
    /\ (pc = "backoff" => Len(delays) = attempt)
    /\ (pc = "inflight" => Len(delays) = attempt - 1)
    /\ (connected /\ pc = "catch" /\ UpstreamTransient(err)) =>
           /\ attempt = 3
           /\ err.att = 3
           /\ delays = <<SpecDelay(1), SpecDelay(2)>>

C3_Witness ==
    /\ connected
    /\ pc = "catch"
    /\ err = HttpError(500, 3)
    /\ delays = <<1000, 2000>>

\* C4: an upstream failure with a status in 400-499 is followed by no
\* backoff wait and no further attempt, and the connected caller receives
\* exactly one error event, after which the stream terminates.
C4_ClientErrorSingleErrorEvent ==
    UpstreamClientError(err) =>
        /\ attempt = err.att
        /\ Len(delays) = err.att - 1
        /\ pc \in {"catch", "finished", "hung"}
        /\ (connected /\ pc # "catch") =>
               /\ Len(SelectSeq(events, IsError)) = 1
               /\ IsError(events[Len(events)])
               /\ notified # "none"

\* C5: a relay whose caller stays connected ends with exactly one terminal
\* event (done or error), emits nothing after it, and raises no error
\* through the event stream.  Stated here for the relays in which no cache
\* call threw.
C5_ExactlyOneTerminalEvent ==
    ~storeThrew =>
        /\ Len(SelectSeq(events, IsTerminal)) <= 1
        /\ \A i \in 1..Len(events) : IsTerminal(events[i]) => i = Len(events)
        /\ notified # "error"
        /\ (connected /\ Ended) => Len(SelectSeq(events, IsTerminal)) = 1

\* The payload events the step's chunk yields for a connected caller
ExpectedFromStep ==
    IF pc = "streaming" /\ pc' = "streaming" /\ wire' # wire /\ ~closed
    THEN LET parsed == ParseChunk(SubSeq(wire, 1, Len(wire) - Len(wire')))
         IN [i \in 1..Len(parsed) |-> ContentEvent(parsed[i], attempt)]
    ELSE <<>>

C7_PersistedEqualsForwarded ==
    \A i \in 1..Len(messages) :
        messages[i].role = "assistant" =>
            messages[i].content = ConcatContents(SelectSeq(events, IsPayload))

C7_Witness ==
    /\ Len(messages) = 2
    /\ messages[2] = AssistantMessage(<<"a", "b">>)
    /\ Len(SelectSeq(events, IsPayload)) = 2

\* The cache keys of the conversation the claim C8 names
ConversationEntries ==
    {ConversationKey(conv), MessagesKey(conv), FilesKey(conv), ConversationsKey(UserId)}

\* C8 as stated: a done event is emitted only after the assistant message
\* is persisted, the four cache entries of the conversation are invalidated
\* and the session is deregistered; it carries the conversation's id.
C8_DoneAfterCleanupAsStated ==
    \A i \in 1..Len(events) :
        IsDone(events[i]) =>
            /\ \E j \in 1..Len(messages) : messages[j].role = "assistant"
            /\ ConversationEntries \cap cache = {}
            /\ StreamKey(StreamId) \notin cache
            /\ events[i].conversationId = conv
            /\ conv = IF convGiven THEN GivenConversation ELSE CreatedConversation

\* C8 amended: as C8, but the file-list entry may remain when the store
\* failed while the file-list pattern was being invalidated (that failure
\* is swallowed by invalidatePattern).
C8_DoneAfterCleanup ==
    \A i \in 1..Len(events) :
        IsDone(events[i]) =>
            /\ \E j \in 1..Len(messages) : messages[j].role = "assistant"
            /\ (ConversationEntries \ {FilesKey(conv)}) \cap cache = {}
            /\ (FilesKey(conv) \in cache => swallowed)
            /\ StreamKey(StreamId) \notin cache
            /\ events[i].conversationId = conv
            /\ conv = IF convGiven THEN GivenConversation ELSE CreatedConversation

C8_Witness ==
    /\ Len(events) = 2
    /\ events[2] = DoneEvent(GivenConversation)
    /\ ~swallowed
    /\ messages = <<UserMessage, AssistantMessage(<<"a">>)>>

\* C9: when an error event was emitted, the session is deregistered and no
\* assistant message was persisted, also after content events.
C9_ErrorMeansNoAssistantMessage ==
    (\E i \in 1..Len(events) : IsError(events[i])) =>
        /\ StreamKey(StreamId) \notin cache
        /\ \A j \in 1..Len(messages) : messages[j].role # "assistant"

C9_Witness ==
    /\ Len(events) = 2
    /\ events[1].kind = "content"
    /\ IsError(events[2])

\* C10: when persisting the assistant message fails, the connected caller
\* receives a terminal error event and no done event, the stream ends and
\* the session is deregistered.  The state after the failed save is the one
\* the 'end' handler leaves when its save rejected and no cache call threw.
C10_SaveFailureSurfaced ==
    (connected /\ pc = "hung" /\ err = DbError /\ ~storeThrew) =>
        /\ \E i \in 1..Len(events) : IsError(events[i])
        /\ \A i \in 1..Len(events) : ~IsDone(events[i])
        /\ notified # "none"
        /\ StreamKey(StreamId) \notin cache

\* C11: when the caller disconnected before an upstream response arrived, no
\* event is ever emitted and, once the relay has nothing left to run, its
\* session is deregistered.  Stated for the relays in which no cache call
\* threw.
C11_EarlyDisconnectSilent ==
    (cutEarly /\ ~storeThrew) =>
        /\ events = <<>>
        /\ (Ended => StreamKey(StreamId) \notin cache)

\* C12: when the caller disconnected after the upstream response had started
\* streaming, the relay has deregistered the session by the time it has
\* nothing left to run.  Stated for the relays in which no cache call threw.
C12_LateDisconnectDeregisters ==
    (~connected /\ ~cutEarly /\ ~storeThrew /\ Ended) =>
        StreamKey(StreamId) \notin cache

\* C13: a failure of the cache store is never surfaced: it neither diverts
\* the relay to its failure handling, nor leaves it hanging, nor produces an
\* error event or an error notification.
C13_StoreFailureContained ==
    storeThrew =>
        /\ pc \notin {"catch", "hung"}
        /\ \A i \in 1..Len(events) : ~IsError(events[i])
        /\ notified # "error"

\* C14: an attempt ended by the 120 s timer is handled as a transient
\* failure: it reaches streamChat's catch block only as the last of
\* MAX_RETRIES attempts, and the connected caller then gets an error event.
\* Stated for the relays in which no cache call threw.
C14_TimeoutIsTransient ==
    (timedOut /\ connected /\ ~storeThrew) =>
        /\ (pc = "catch" => attempt = MAX_RETRIES)
        /\ (pc = "finished" => \E i \in 1..Len(events) : IsError(events[i]))

(***************************************************************************)
(* Properties of the rate limiter                                          *)
(***************************************************************************)
\* The window of the claims: it opens when the counter entry is created and
\* lasts WindowSeconds.
WindowOver == winAdmitted = 0 \/ now >= winStart + WindowSeconds

\* Request r leaves checkLimit in this step without a store failure
Decides(r) == gpc[r] \in {"get", "set"} /\ gpc'[r] = "remaining" /\ ~failed'[r]

\* C15: for any interleaving of the checks of one identity, the number of
\* requests admitted since the counter entry was created never exceeds the
\* limit.
C15_AdmittedWithinLimit == winAdmitted <= Limit

\* C16: requests issued one after another: a request is admitted exactly
\* when its window is over (or none was opened) or fewer than limit requests
\* were admitted in the window.
C16_SequentialAdmission ==
    [][Decides(1) => ((allowed'[1] = "allowed") <=> (WindowOver \/ winAdmitted < Limit))]_vars

\* C17: the expiry of a live counter entry is the time its window opened
\* plus windowSeconds; later requests of the window do not move it.
C17_ExpiryFixedAtFirstRequest ==
    Stored # 0 => rlExpiry = winStart + WindowSeconds

\* C18: a request during whose check a store operation failed is never
\* rejected: checkLimit has returned true if the failure was its own, and
\* the guard lets the request through to the handler.
C18_FailOpen ==
    \A r \in Requests :
        failed[r] =>
            /\ gpc[r] \in {"remaining", "handler", "idle"}
            /\ (gpc[r] = "remaining" => allowed[r] = "allowed")

C18_Witness ==
    \E r \in Requests :
        /\ failed[r]
        /\ gpc[r] = "handler"
        /\ allowed[r] = "denied"
        /\ Stored = Limit

\* C19: the handler of a request (the relay) runs only after the admission
\* check of that request has completed and admitted it.  Stated for the
\* requests during whose check no store operation failed.
C19_AdmissionBeforeRelay ==
    \A r \in Requests :
        (gpc[r] = "handler" /\ ~failed[r]) => allowed[r] = "allowed"

(***************************************************************************)
(* Properties of the message-list cache                                    *)
(***************************************************************************)
\* C20: a read that began when no save was pending, with no save since,
\* returns the list the message table holds, whatever reads were in
\* progress during the save.  Stated for a store that has not failed.
C20_ReadAfterSaveIsCurrent ==
    \A r \in Readers :
        (rdpc[r] = "done" /\ fresh[r] /\ ~cacheFailed) => returned[r] = messageRows

(***************************************************************************)
(* Properties of getOrSet                                                  *)
(***************************************************************************)
\* C21: with a healthy store, the calls completed on a key since it was
\* last absent (never set, invalidated or expired) have invoked the factory
\* exactly once in total, whatever valid value it returned; so the first
\* call after an invalidation invokes it again and the second does not.
C21_ComputedOncePerEntry ==
    (sinceHealthy /\ sinceCalls >= 1) => sinceComputes = 1

C21_Witness ==
    /\ sinceHealthy
    /\ gosInvalidated
    /\ sinceCalls = 2
    /\ sinceComputes = 1
    /\ gosEntry = "zero"
    /\ gosResult = "zero"

\* C22: a call during which the store failed on the read or on the write
\* ends with the result of the factory (its value, or the factory's own
\* error) and never with the store's error.
C22_StoreFailureBypassesCache ==
    (gospc = "done" /\ gosStoreFailed) =>
        /\ gosResult # "StoreError"
        /\ gosComputes >= 1
        /\ gosResult # "FactoryError" => gosResult = gosComputed

C22_Witness ==
    /\ gospc = "done"
    /\ gosStoreFailed
    /\ gosComputes = 2
    /\ gosEntry = "undefined"
    /\ gosResult = "emptyList"

(***************************************************************************)
(* Properties of invalidateConversation                                    *)
(***************************************************************************)
\* An invalidateConversation call has ended and nothing was stored since
InvEnded == invpc = "idle" /\ invOutcome # "none"

\* C23: when invalidateConversation(id) has ended, it has raised no error
\* if the cache held no entry of id; and, the store having answered every
\* operation of the call, no conversation-detail, message-list or file-list
\* entry of id is left, and a second call in a row has left the cache as
\* the first one did.
C23_InvalidateConversation ==
    InvEnded =>
        /\ ~invHadEntries => invOutcome = "ok"
        /\ ~invFailed =>
               /\ EntriesOf(invId) \cap invStore = {}
               /\ (invRow = 2 => invStore = invOnce)

(***************************************************************************)
(* Properties of the stream registry                                       *)
(***************************************************************************)
\* C25: every stored session satisfies expiresAt = lastActivityAt + 300 s.
C25_ExpiryFollowsActivity ==
    \A i \in SessionIds :
        Present(i) => streams[i].expiresAt = streams[i].lastActivityAt + STREAM_TIMEOUT * 1000

\* C26: no listing (all sessions, the owner's sessions, the count) returns
\* or counts a session whose expiresAt is earlier than the current time.
C26_NoExpiredSessionListed ==
    \A i \in listed : streams[i].expiresAt >= regNow

\* C27: once the cleanup task has run, no session whose expiresAt is in the
\* past is in the store to be listed, although nothing deregistered it.
C27_SweepRemovesExpired ==
    lastOp = Op("sweep", "") =>
        \A i \in SessionIds : Present(i) => streams[i].expiresAt > regNow

C27_Witness ==
    /\ lastOp = Op("sweep", "")
    /\ "s1" \in sweptOut
    /\ status["s1"] = "registered"
    /\ ~Present("s1")
    /\ Present("s2")

C24_SessionKeysDistinct ==
    /\ \A r1, r2 \in Relays :
           (r1 # r2 /\ trkpc[r1] = "inflight" /\ trkpc[r2] = "inflight") => trkId[r1] # trkId[r2]
    /\ \A r \in Relays : trkpc[r] = "inflight" => StreamKey(trkId[r]) \in trkStore

(***************************************************************************)
(* Properties of the title heuristic                                       *)
(***************************************************************************)
\* The title when no sentence is taken: the whole normalised message if it
\* has at most 50 characters, else its first 50 characters, cut back to
\* the last blank beyond position 30 if there is one, and an ellipsis
TitleByLength(c) ==
    LET first == SubSeq(c, 1, TitleMax)
        blanks == {i \in 1..TitleMax : first[i] = " " /\ i - 1 > BoundaryMin}
    IN IF Len(c) <= TitleMax THEN c
       ELSE IF blanks = {} THEN first \o Ellipsis
       ELSE SubSeq(first, 1, (CHOOSE i \in blanks : \A j \in blanks : j <= i) - 1) \o Ellipsis

\* C29 as stated: the title is the normalised text up to and including its
\* first mark if that mark is within the first 60 characters, and the
\* title by length otherwise.
C29_TitleAsStated ==
    titled =>
        LET c == CleanMessage(titleMessage)
        IN title = IF FirstMark(c) \in 1..SentenceMax
                   THEN SubSeq(c, 1, FirstMark(c))
                   ELSE TitleByLength(c)

\* C29 amended: as C29, but a message that begins with a mark has no
\* sentence taken from it: its title is the title by length.
C29_TitleHeuristic ==
    titled =>
        LET c == CleanMessage(titleMessage)
        IN title = IF FirstMark(c) \in 2..SentenceMax
                   THEN SubSeq(c, 1, FirstMark(c))
                   ELSE TitleByLength(c)

C29_Witness ==
    /\ titled
    /\ Len(titleMessage) = 70
    /\ titleMessage[1] = "."
    /\ titleMessage[32] = " "
    /\ title = SubSeq(titleMessage, 1, 31) \o Ellipsis

(***************************************************************************)
(* Properties of the demo limits                                           *)
(***************************************************************************)
\* C30: the demo user never owns more than 10 conversations, whatever the
\* interleaving of the create requests.
C30_DemoConversationCap == demoRows <= MAX_CONVERSATIONS

(***************************************************************************)
(* Properties of the preview                                               *)
(***************************************************************************)
\* C31: a preview request that began after togglePublicStatus(id, false)
\* completed, while the conversation is still meant to be private, never
\* returns the conversation.
C31_NoPreviewOncePrivate ==
    \A r \in Previewers :
        (ppc[r] = "done" /\ pLate[r]) => pOut[r] # "content"

(***************************************************************************)
(* Properties of a relay whose caller left                                 *)
(***************************************************************************)
\* C32: when the caller disconnected before the upstream stream ended by
\* itself (before a response arrived, or while the stream was open), no
\* assistant message is persisted for the relay.
C32_NoAssistantMessageAfterDisconnect ==
    (cutEarly \/ responseStream = "destroyed") =>
        \A i \in 1..Len(messages) : messages[i].role # "assistant"

(***************************************************************************)
(* Properties of the history a relay sends upstream                        *)
(***************************************************************************)
\* C33: the list a relay loads right after persisting its user message has
\* that message (the newest row of the table) as its last entry, whatever
\* another reader of the list does meanwhile.  Stated for a store that has
\* not failed.
C33_HistoryEndsWithUserMessage ==
    (rdpc[1] = "done" /\ ~cacheFailed) => returned[1] = messageRows

\* C35: one getOrSet call invokes its factory at most once; in particular
\* a call that ends with the factory's error has invoked it exactly once.
C35_FactoryInvokedAtMostOnce ==
    gospc = "done" => gosComputes <= 1

(***************************************************************************)
(* Properties of the conversation lookup                                   *)
(***************************************************************************)
\* C34: findConversationById gives the conversation only to a caller whose
\* userId owns it, whatever the cache holds, and only the owner's relay
\* appends messages to it.
C34_OnlyOwnerFinds ==
    /\ \A u \in Callers : fOut[u] = "conversation" => u = Owner
    /\ appendedBy \subseteq {Owner}

(***************************************************************************)
(* Properties of the registry under concurrent calls                       *)
(***************************************************************************)
\* C36: the owner's listing contains every session whose register call has
\* returned, that no unregister call has been made for, and that has not
\* expired.
C36_RegisteredSessionListed ==
    lastOp = Op("list", "user") =>
        \A i \in SessionIds :
            (/\ status[i] = "registered"
             /\ regpc[i] = "idle"
             /\ regNow < streams[i].expiresAt) => i \in listed

(***************************************************************************)
(* Properties of the client's streaming send                               *)
(***************************************************************************)
\* C37: the POST of a message is never issued again once a chunk of its
\* answer has been yielded to the consumer.
C37_NoRepostAfterChunk == ~reposted

(***************************************************************************)
(* Properties of the demo store                                            *)
(***************************************************************************)
\* C38: while the stream of a sendMessage call is in flight and has not
\* been stopped, isSending is true and abortController is that call's
\* controller.
C38_SendingWhileInFlight ==
    \A m \in Sends :
        (mpc[m] = "streaming" /\ ~mAborted[m]) =>
            (isSending /\ abortController = m)

====
